---------------------------- MODULE Spec2Model ----------------------------
(***************************************************************************)
(* A model of the YNAB MCP server: the client (src/unnamed/part_002, the   *)
(* repository's client.ts) and the tool handlers (src/src/tools/*.ts,      *)
(* src/unnamed/part_000 = tools/payees.ts, src/src/tools/scheduled.ts      *)
(* lines 122-292 = tools/categories.ts).                                   *)
(*                                                                         *)
(* Names are sequences of characters, so that lower-casing, equality and   *)
(* substring search are computed rather than assumed.  Amounts in major    *)
(* units are integers counting 1/10000 of a major unit (one tenth of a     *)
(* minor unit), treated as exact decimals.                                 *)
(***************************************************************************)
EXTENDS Integers, Sequences, FiniteSets, TLC

VARIABLES
  remoteAccounts,  \* remote: the budget's accounts, as GET /accounts lists them
  remoteGroups,    \* remote: category groups with their categories
  remotePayees,    \* remote: payees, as GET /payees lists them
  remoteTxns,      \* remote: transactions
  remoteSched,     \* remote: scheduled transactions
  remoteBudgets,   \* remote: the budgets GET /budgets lists
  budgetId,        \* YNABClient.budgetId (0 is null)
  invocations,     \* tool calls dispatched so far
  payees,          \* YNABClient.payees, the cache
  lastFetched,     \* history: the list the last successful GET /payees returned
  phase,           \* "starting" | "serving" | "failed" | "resolve"
  tool,            \* the tool whose handler is running, or "none"
  pc,              \* the handler's position (the await it is suspended at)
  arg,             \* the handler's arguments, each filled in when first read
  loc,             \* the handler's local variables
  calls,           \* the remote requests this invocation has issued, in order
  result,          \* "none" | "ok" | "error" | "thrown"
  rQuery,          \* resolver run: the query
  rResult          \* resolver run: what the resolver returned

vars == <<remoteAccounts, remoteGroups, remotePayees, remoteTxns, remoteSched,
          remoteBudgets, budgetId, invocations, payees, lastFetched, phase,
          tool, pc, arg, loc, calls, result, rQuery, rResult>>

remoteVars == <<remoteAccounts, remoteGroups, remotePayees, remoteTxns,
                remoteSched, remoteBudgets>>

resolveVars == <<rQuery, rResult>>

\* What a step of a running handler leaves alone besides the remote and the cache.
frame == <<budgetId, invocations, phase, tool, rQuery, rResult>>

-----------------------------------------------------------------------------
(* Bounds *)

MaxRAccounts == 3   \* resolver runs: accounts listed by the remote
MaxRGroups == 2     \* resolver runs: category groups
MaxRCats == 2       \* resolver runs: categories per group
MaxRPayees == 6     \* resolver runs: cached payees (more than PayeeShown)

-----------------------------------------------------------------------------
(* Strings *)

toLowerChar(c) ==
  IF c = "A" THEN "a" ELSE IF c = "B" THEN "b" ELSE IF c = "R" THEN "r" ELSE c

toLowerCase(s) == [i \in DOMAIN s |-> toLowerChar(s[i])]

\* String.prototype.includes: q occurs in s as a contiguous substring.
includes(s, q) ==
  \E i \in 0..(Len(s) - Len(q)) : SubSeq(s, i + 1, i + Len(q)) = q

\* A starts-with test that compares the first character only.
startsWith_FirstCharacter(s, q) ==
  Len(q) > 0 /\ Len(s) > 0 /\ s[1] = q[1]

\* String.prototype.startsWith
startsWith(s, q) ==
  Len(q) <= Len(s) /\ SubSeq(s, 1, Len(q)) = q

\* Array.prototype.slice(0, n)
slice(s, n) == SubSeq(s, 1, IF Len(s) < n THEN Len(s) ELSE n)

\* Array.prototype.map(x => x.name)
names(s) == [i \in DOMAIN s |-> s[i].name]

RECURSIVE flatten(_)
flatten(ss) == IF ss = <<>> THEN <<>> ELSE Head(ss) \o flatten(Tail(ss))

-----------------------------------------------------------------------------
(* Name resolution *)

PayeeShown == 5       \* findPayee: matches.slice(0, 5)
CategoryHinted == 10  \* findCategory: categories.slice(0, 10)

NoAccount == [id |-> 0, name |-> <<>>, closed |-> FALSE, cleared_balance |-> 0]
NoCategory == [id |-> 0, name |-> <<>>, hidden |-> FALSE]
NoPayee == [id |-> 0, name |-> <<>>]

\* The two shapes a resolver returns: an entity (it has "id"), or an object
\* with "matches" and, except for a new payee, "error".  listed holds the
\* names the error message spells out, more the "(and n more)" count.
Entity(e) ==
  [isEntity |-> TRUE, entity |-> e, matches |-> <<>>, isNew |-> FALSE,
   hasError |-> FALSE, listed |-> <<>>, more |-> 0]

NoEntity(none, m, new, err, l, n) ==
  [isEntity |-> FALSE, entity |-> none, matches |-> m, isNew |-> new,
   hasError |-> err, listed |-> l, more |-> n]

\* getAccountsFresh without the filter.
getAccountsFresh_WithClosed == remoteAccounts

getAccountsFresh == SelectSeq(remoteAccounts, LAMBDA a : ~a.closed)

\* The groups of getCategoriesFresh: each with all of its categories.
getGroupsFresh == SelectSeq(remoteGroups, LAMBDA g : ~g.hidden)

\* The categories of getCategoriesFresh.
getCategoriesFresh ==
  LET groups == getGroupsFresh
  IN  flatten([i \in DOMAIN groups |->
                 SelectSeq(groups[i].categories, LAMBDA c : ~c.hidden)])

\* findAccount returning the first substring match when several match.
findAccount_FirstOfMany(query) ==
  LET accounts == getAccountsFresh
      q == toLowerCase(query)
      exact == SelectSeq(accounts, LAMBDA a : toLowerCase(a.name) = q)
      contains == SelectSeq(accounts, LAMBDA a : includes(toLowerCase(a.name), q))
  IN  IF exact # <<>> THEN Entity(Head(exact))
      ELSE IF Len(contains) >= 1 THEN Entity(contains[1])
      ELSE NoEntity(NoAccount, <<>>, FALSE, TRUE, names(accounts), 0)

findAccount(query) ==
  LET accounts == getAccountsFresh
      q == toLowerCase(query)
      exact == SelectSeq(accounts, LAMBDA a : toLowerCase(a.name) = q)
      contains == SelectSeq(accounts, LAMBDA a : includes(toLowerCase(a.name), q))
  IN  IF exact # <<>> THEN Entity(Head(exact))
      ELSE IF Len(contains) = 1 THEN Entity(contains[1])
      ELSE IF Len(contains) > 1
        THEN NoEntity(NoAccount, contains, FALSE, TRUE, names(contains), 0)
      ELSE NoEntity(NoAccount, <<>>, FALSE, TRUE, names(accounts), 0)

\* findCategory reporting an unknown category the way findPayee reports an
\* unknown payee.
findCategory_NewOnNoMatch(query) ==
  LET categories == getCategoriesFresh
      q == toLowerCase(query)
      exact == SelectSeq(categories, LAMBDA c : toLowerCase(c.name) = q)
      contains == SelectSeq(categories, LAMBDA c : includes(toLowerCase(c.name), q))
  IN  IF exact # <<>> THEN Entity(Head(exact))
      ELSE IF Len(contains) = 1 THEN Entity(contains[1])
      ELSE IF Len(contains) > 1
        THEN NoEntity(NoCategory, contains, FALSE, TRUE, names(contains), 0)
      ELSE NoEntity(NoCategory, <<>>, TRUE, FALSE, <<>>, 0)

findCategory(query) ==
  LET categories == getCategoriesFresh
      q == toLowerCase(query)
      exact == SelectSeq(categories, LAMBDA c : toLowerCase(c.name) = q)
      contains == SelectSeq(categories, LAMBDA c : includes(toLowerCase(c.name), q))
  IN  IF exact # <<>> THEN Entity(Head(exact))
      ELSE IF Len(contains) = 1 THEN Entity(contains[1])
      ELSE IF Len(contains) > 1
        THEN NoEntity(NoCategory, contains, FALSE, TRUE, names(contains), 0)
      ELSE NoEntity(NoCategory, <<>>, FALSE, TRUE,
                    names(slice(categories, CategoryHinted)), 0)

\* findPayee without the exact-match short-circuit.
findPayee_NoExact(query) ==
  LET q == toLowerCase(query)
      matches == SelectSeq(payees, LAMBDA p :
                   includes(toLowerCase(p.name), q) \/ startsWith(toLowerCase(p.name), q))
  IN  IF Len(matches) = 1 THEN Entity(matches[1])
      ELSE IF Len(matches) > 1
        THEN NoEntity(NoPayee, slice(matches, PayeeShown), FALSE, TRUE,
                      names(slice(matches, PayeeShown)),
                      IF Len(matches) > PayeeShown THEN Len(matches) - PayeeShown ELSE 0)
      ELSE NoEntity(NoPayee, <<>>, TRUE, FALSE, <<>>, 0)

findPayee(query) ==
  LET q == toLowerCase(query)
      exact == SelectSeq(payees, LAMBDA p : toLowerCase(p.name) = q)
      matches == SelectSeq(payees, LAMBDA p :
                   includes(toLowerCase(p.name), q) \/ startsWith(toLowerCase(p.name), q))
  IN  IF exact # <<>> THEN Entity(Head(exact))
      ELSE IF Len(matches) = 1 THEN Entity(matches[1])
      ELSE IF Len(matches) > 1
        THEN NoEntity(NoPayee, slice(matches, PayeeShown), FALSE, TRUE,
                      names(slice(matches, PayeeShown)),
                      IF Len(matches) > PayeeShown THEN Len(matches) - PayeeShown ELSE 0)
      ELSE NoEntity(NoPayee, <<>>, TRUE, FALSE, <<>>, 0)

-----------------------------------------------------------------------------
(* The Gateway: YNABClient.request *)

\* An optional string: absent (undefined), or present with a value.
Absent == [has |-> FALSE, v |-> <<>>]
Some(n) == [has |-> TRUE, v |-> n]

\* JavaScript truthiness of an optional string: undefined and "" are falsy.
Truthy(o) == o.has /\ o.v # <<>>

Statuses == {200, 401, 429, 500}

\* response.ok
ok(status) == status \in 200..299

\* response.statusText
statusText(status) ==
  IF status = 401 THEN <<"U">>
  ELSE IF status = 429 THEN <<"T">>
  ELSE IF status = 500 THEN <<"I">>
  ELSE <<>>

\* request() taking a 429 for any other failure.
errorOf_RateLimitAsApi(status) ==
  IF status = 401 THEN "authentication"
  ELSE "api"

\* The error request() throws for a response that is not ok.
errorOf(status) ==
  IF status = 401 THEN "authentication"
  ELSE IF status = 429 THEN "rate limit"
  ELSE "api"

\* The text after "YNAB API error: ": error.error?.detail || response.statusText
\* (the two other errors have a fixed text, here empty).
messageOf(status, detail) ==
  IF errorOf(status) # "api" THEN <<>>
  ELSE IF Truthy(detail) THEN detail.v
  ELSE statusText(status)

NoError == [kind |-> "none", message |-> <<>>]

\* What one call of request() throws, given the response's status and the
\* error.detail of its body (absent when the body is not JSON or has none).
thrown(status, detail) ==
  IF ok(status) THEN NoError
  ELSE [kind |-> errorOf(status), message |-> messageOf(status, detail)]

NoBody == [none |-> TRUE]

\* One call of request(): the one HTTP request it makes, as the invocation's
\* log records it, and the error it threw.
Call(method, res, status, body, detail) ==
  [method |-> method, res |-> res, status |-> status, body |-> body,
   detail |-> detail, raised |-> thrown(status, detail)]

-----------------------------------------------------------------------------
(* Resolver runs: one call of findAccount, findCategory or findPayee on    *)
(* candidates and a query drawn from bounded sets.                         *)

RNames == {<<"A">>, <<"a", "b">>, <<"b", "a">>}
RQueries == {<<>>, <<"a">>, <<"B">>, <<"a", "b">>, <<"x">>}
RCatNames == {<<"A">>, <<"a", "b">>}

SeqsUpTo(S, n) == UNION {[1..k -> S] : k \in 0..n}

RAccountLists ==
  {[i \in DOMAIN f |-> [id |-> i, name |-> f[i][1], closed |-> f[i][2],
                        cleared_balance |-> 0]] :
     f \in SeqsUpTo(RNames \X BOOLEAN, MaxRAccounts)}

\* The categories a draw f puts in group g, in the order of the draw.
RCategoryLists(f, g) ==
  LET idx == SelectSeq([i \in DOMAIN f |-> i], LAMBDA i : f[i][3] = g)
  IN  [j \in DOMAIN idx |->
         [id |-> 10 * g + j, name |-> f[idx[j]][1], hidden |-> f[idx[j]][2]]]

RGroupLists ==
  {[g \in 1..MaxRGroups |->
      [id |-> g, hidden |-> h[g], categories |-> RCategoryLists(f, g)]] :
     h \in [1..MaxRGroups -> BOOLEAN],
     f \in SeqsUpTo(RCatNames \X BOOLEAN \X (1..MaxRGroups), MaxRCats)}

RPayeeLists ==
  {[i \in DOMAIN f |-> [id |-> i, name |-> f[i]]] : f \in SeqsUpTo(RNames, MaxRPayees)}

NoResult == NoEntity(NoPayee, <<>>, FALSE, FALSE, <<>>, 0)

NoArg == [none |-> TRUE]
NoLoc == [none |-> TRUE]

InitResolve ==
  /\ phase = "resolve"
  /\ tool \in {"findAccount", "findCategory", "findPayee"}
  /\ remoteAccounts \in (IF tool = "findAccount" THEN RAccountLists ELSE {<<>>})
  /\ remoteGroups \in (IF tool = "findCategory" THEN RGroupLists ELSE {<<>>})
  /\ payees \in (IF tool = "findPayee" THEN RPayeeLists ELSE {<<>>})
  /\ remotePayees = payees
  /\ lastFetched = payees
  /\ remoteTxns = <<>>
  /\ remoteSched = <<>>
  /\ remoteBudgets = <<>>
  /\ budgetId = 1
  /\ invocations = 0
  /\ rQuery \in RQueries
  /\ rResult = NoResult
  /\ pc = "call"
  /\ arg = NoArg
  /\ loc = NoLoc
  /\ calls = <<>>
  /\ result = "none"

\* await client.findAccount(query): one GET of the accounts, then the match.
ResolveAccount(status) ==
  /\ phase = "resolve" /\ tool = "findAccount" /\ pc = "call"
  /\ calls' = Append(calls, Call("GET", "accounts", status, NoBody, Absent))
  /\ IF ok(status)
       THEN rResult' = findAccount(rQuery) /\ result' = "ok"
       ELSE rResult' = rResult /\ result' = "thrown"
  /\ pc' = "done"
  /\ UNCHANGED <<remoteVars, budgetId, invocations, payees, lastFetched, phase, tool, arg, loc, rQuery>>

ResolveCategory(status) ==
  /\ phase = "resolve" /\ tool = "findCategory" /\ pc = "call"
  /\ calls' = Append(calls, Call("GET", "categories", status, NoBody, Absent))
  /\ IF ok(status)
       THEN rResult' = findCategory(rQuery) /\ result' = "ok"
       ELSE rResult' = rResult /\ result' = "thrown"
  /\ pc' = "done"
  /\ UNCHANGED <<remoteVars, budgetId, invocations, payees, lastFetched, phase, tool, arg, loc, rQuery>>

\* client.findPayee(query): synchronous, reads the cache only.
ResolvePayee ==
  /\ phase = "resolve" /\ tool = "findPayee" /\ pc = "call"
  /\ rResult' = findPayee(rQuery)
  /\ result' = "ok"
  /\ pc' = "done"
  /\ UNCHANGED <<remoteVars, budgetId, invocations, payees, lastFetched, phase, tool, arg, loc, calls, rQuery>>

NextResolve ==
  \/ \E status \in Statuses : ResolveAccount(status)
  \/ \E status \in Statuses : ResolveCategory(status)
  \/ ResolvePayee

SpecResolve == InitResolve /\ [][NextResolve]_vars

-----------------------------------------------------------------------------
(* Resolver claims *)

\* The candidates a resolver run matches against.
Candidates ==
  IF tool = "findAccount" THEN getAccountsFresh
  ELSE IF tool = "findCategory" THEN getCategoriesFresh
  ELSE payees

Resolved == phase = "resolve" /\ pc = "done" /\ result = "ok"

ExactIdx ==
  {i \in DOMAIN Candidates : toLowerCase(Candidates[i].name) = toLowerCase(rQuery)}

SubstrIdx ==
  {i \in DOMAIN Candidates :
     includes(toLowerCase(Candidates[i].name), toLowerCase(rQuery))}

\* The candidates at the indices of I, in list order.
RECURSIVE Pick(_, _, _)
Pick(c, I, i) ==
  IF i > Len(c) THEN <<>>
  ELSE (IF i \in I THEN <<c[i]>> ELSE <<>>) \o Pick(c, I, i + 1)

\* C4: when exactly one candidate's lower-cased name equals the lower-cased
\* query, the resolver returns that candidate, however many other candidates
\* contain the query.
C4_ExactMatchReturned ==
  (Resolved /\ Cardinality(ExactIdx) = 1)
    => /\ rResult.isEntity
       /\ \A i \in ExactIdx : rResult.entity = Candidates[i]

C4_Witness ==
  /\ Resolved
  /\ Cardinality(ExactIdx) = 1
  /\ Cardinality(SubstrIdx) >= 3

\* C5: when no candidate equals the query and more than one contains it, the
\* resolver returns no entity but the substring matches in list order: all of
\* them for accounts and categories, the first five for payees.
C5_Disambiguation ==
  (Resolved /\ ExactIdx = {} /\ Cardinality(SubstrIdx) > 1)
    => /\ ~rResult.isEntity
       /\ ~rResult.isNew
       /\ rResult.hasError
       /\ rResult.matches =
            (IF tool = "findPayee"
               THEN slice(Pick(Candidates, SubstrIdx, 1), 5)
               ELSE Pick(Candidates, SubstrIdx, 1))
       /\ rResult.listed = names(rResult.matches)

C5_Witness ==
  /\ Resolved
  /\ tool = "findPayee"
  /\ ExactIdx = {}
  /\ Cardinality(SubstrIdx) = 6
  /\ Len(rResult.matches) = 5

\* C25: whenever a resolver returns an entity, it is the only candidate whose
\* lower-cased name equals the lower-cased query, or no candidate equals the
\* query and it is the only candidate whose name contains it.
C25_ReturnedIsUnique ==
  (Resolved /\ rResult.isEntity) =>
    \/ /\ Cardinality(ExactIdx) = 1
       /\ \A i \in ExactIdx : rResult.entity = Candidates[i]
    \/ /\ ExactIdx = {}
       /\ Cardinality(SubstrIdx) = 1
       /\ \A i \in SubstrIdx : rResult.entity = Candidates[i]

\* findPayee with the starts-with test taken out of the filter.
findPayeeContains(query) ==
  LET q == toLowerCase(query)
      exact == SelectSeq(payees, LAMBDA p : toLowerCase(p.name) = q)
      matches == SelectSeq(payees, LAMBDA p : includes(toLowerCase(p.name), q))
  IN  IF exact # <<>> THEN Entity(Head(exact))
      ELSE IF Len(matches) = 1 THEN Entity(matches[1])
      ELSE IF Len(matches) > 1
        THEN NoEntity(NoPayee, slice(matches, PayeeShown), FALSE, TRUE,
                      names(slice(matches, PayeeShown)),
                      IF Len(matches) > PayeeShown THEN Len(matches) - PayeeShown ELSE 0)
      ELSE NoEntity(NoPayee, <<>>, TRUE, FALSE, <<>>, 0)

\* The payees the filter of findPayee keeps, by index.
MatchIdx ==
  {i \in DOMAIN payees :
     \/ includes(toLowerCase(payees[i].name), toLowerCase(rQuery))
     \/ startsWith(toLowerCase(payees[i].name), toLowerCase(rQuery))}

\* C28: for every payee list and query, the payees kept by "contains or starts
\* with" are those kept by "contains" alone, and findPayee returns what it
\* returns with the starts-with test removed.
C28_StartsWithRedundant ==
  (Resolved /\ tool = "findPayee") =>
    /\ MatchIdx = SubstrIdx
    /\ rResult = findPayeeContains(rQuery)

C28_Witness ==
  /\ Resolved /\ tool = "findPayee"
  /\ ExactIdx = {}
  /\ Cardinality(SubstrIdx) = 3
  /\ \E i, j \in SubstrIdx :
       /\ startsWith(toLowerCase(payees[i].name), toLowerCase(rQuery))
       /\ ~startsWith(toLowerCase(payees[j].name), toLowerCase(rQuery))
  /\ Len(rResult.matches) = 3

\* C6: when no candidate matches exactly or by substring, findPayee returns
\* the new-payee result (no candidates, isNew, no error), findAccount and
\* findCategory return the not-found result (no candidates, an error), and
\* the call does not throw.
C6_NoMatch ==
  (phase = "resolve" /\ pc = "done" /\ SubstrIdx = {}
     /\ \A i \in DOMAIN calls : ok(calls[i].status))
    => /\ result = "ok"
       /\ ~rResult.isEntity
       /\ rResult.matches = <<>>
       /\ rResult.isNew = (tool = "findPayee")
       /\ rResult.hasError = (tool # "findPayee")

C6_Witness ==
  /\ Resolved
  /\ tool = "findPayee"
  /\ payees # <<>>
  /\ SubstrIdx = {}
  /\ rResult.isNew

-----------------------------------------------------------------------------
(* The server: startup, then tool handlers, one invocation at a time.  A   *)
(* handler advances from one await to the next; an argument is fixed by    *)
(* the caller, and is drawn at the statement that first reads it (the      *)
(* handler cannot behave differently before that).                         *)

MaxInvocations == 1   \* tool calls in one run
MaxSubs == 2          \* sub-transactions of one create_transaction call

Today == 400    \* new Date(), as a day number

AbsentNum == [has |-> FALSE, n |-> 0]
Num(n) == [has |-> TRUE, n |-> n]

AccountArgs == {Absent, Some(<<"b">>), Some(<<"a">>), Some(<<"x">>)}
PayeeArgs == {<<"b">>, <<"a">>, <<"x">>}
OptPayeeArgs == {Absent} \cup {Some(n) : n \in PayeeArgs}
CategoryArgs == {Absent, Some(<<"b">>), Some(<<"a">>), Some(<<"x">>)}
ConfirmArgs == {"undefined", "false", "true"}
DateArgs == {"undefined", "bad"}
StartDateArgs == {"today", "bad"}

ClearedArgs == {"undefined", "cleared", "uncleared", "reconciled"}
AmountArgs == {AbsentNum, Num(-600)}
UpdateDateArgs == {"undefined", "today", "bad"}
TxnArgs == {3, 9}
RequiredCategoryArgs == {<<"b">>, <<"a">>, <<"x">>}
RequiredAccountArgs == {<<"b">>, <<"a">>, <<"x">>}
MonthArgs == {"current", "today", "bad"}
NewNameArgs == {<<"x">>, <<"d", "b">>}
OptNewNameArgs == {Absent, Some(<<"d", "b">>)}
GoalArgs == {AbsentNum, Num(1000)}
BalanceArgs == {AbsentNum, Num(1500), Num(1600)}
DetailArgs == {Absent, Some(<<>>), Some(<<"d">>)}
SinceArgs == {"undefined", "iso", "bad"}
LimitArgs == {AbsentNum, Num(0), Num(2), Num(3), Num(4), Num(5)}

\* The responses the model draws for a handler's requests.
HStatuses == {200, 500}
\* -0.084 is within the tolerance of -0.04 + -0.04, as decimals and as doubles.
ParentAmounts == {-840, -800, -600}
SubAmounts == {-600, -400}

\* The accounts of the budget: a closed one and two open ones, or nothing open.
AccountConfigs ==
  { << [id |-> 3, name |-> <<"x">>, closed |-> TRUE, cleared_balance |-> 0],
       [id |-> 1, name |-> <<"a", "b">>, closed |-> FALSE, cleared_balance |-> 150],
       [id |-> 2, name |-> <<"a", "c">>, closed |-> FALSE, cleared_balance |-> 0] >>,
    << [id |-> 3, name |-> <<"x">>, closed |-> TRUE, cleared_balance |-> 0] >> }

InitialGroups ==
  << [id |-> 1, hidden |-> FALSE,
      categories |-> << [id |-> 11, name |-> <<"a", "b">>, hidden |-> FALSE],
                        [id |-> 12, name |-> <<"a", "c">>, hidden |-> FALSE],
                        [id |-> 13, name |-> <<"x">>, hidden |-> TRUE] >>],
     [id |-> 2, hidden |-> TRUE,
      categories |-> << [id |-> 21, name |-> <<"b">>, hidden |-> FALSE] >>] >>

InitialPayees ==
  << [id |-> 1, name |-> <<"a", "b">>], [id |-> 2, name |-> <<"a", "c">>] >>

\* The transactions of the budget, in the remote's (ascending date) order.
InitialTxns ==
  << [id |-> 1, account_id |-> 1, date |-> Today - 400, cleared |-> "cleared",
      category_id |-> 11, payee_id |-> 1],
     [id |-> 2, account_id |-> 2, date |-> Today - 200, cleared |-> "cleared",
      category_id |-> 12, payee_id |-> 2],
     [id |-> 3, account_id |-> 1, date |-> Today - 100, cleared |-> "reconciled",
      category_id |-> 11, payee_id |-> 2],
     [id |-> 4, account_id |-> 1, date |-> Today - 40, cleared |-> "cleared",
      category_id |-> 12, payee_id |-> 1],
     [id |-> 5, account_id |-> 1, date |-> Today - 5, cleared |-> "uncleared",
      category_id |-> 0, payee_id |-> 1],
     [id |-> 6, account_id |-> 2, date |-> Today - 60, cleared |-> "uncleared",
      category_id |-> 12, payee_id |-> 2] >>

ArgsUnread ==
  [account |-> Absent, payee |-> Absent, confirm_new_payee |-> "undefined",
   category |-> Absent, date |-> "undefined", amount |-> AbsentNum,
   subAmounts |-> <<>>, subs |-> <<>>, transaction_id |-> 0,
   cleared |-> "undefined", memo |-> FALSE, name |-> Absent, note |-> FALSE,
   goal_target |-> AbsentNum, balance |-> AbsentNum, month |-> "undefined",
   since_date |-> "undefined", limit |-> AbsentNum]

\* An updates object with no key set.
NoUpdates ==
  [cleared |-> "undefined", amount |-> AbsentNum, date |-> 0, memo |-> FALSE,
   payee_id |-> 0, payee_name |-> Absent, category_id |-> 0,
   name |-> Absent, note |-> FALSE, goal_target |-> AbsentNum]

LocInit ==
  [accountId |-> 0, account |-> NoAccount, payeeId |-> 0, payeeName |-> Absent,
   categoryId |-> 0, res |-> <<>>, i |-> 0, resolved |-> <<>>,
   updates |-> NoUpdates, queue |-> <<>>, reconciledCount |-> 0, adjustment |-> 0,
   allTransactions |-> <<>>, sinceDate |-> AbsentNum, limit |-> 0,
   transactions |-> <<>>, limited |-> <<>>, list |-> <<>>]

\* new YNABClient(token, process.env.YNAB_BUDGET_ID): nothing fetched yet.
Init ==
  /\ phase = "starting"
  /\ remoteAccounts \in AccountConfigs
  /\ remoteGroups = InitialGroups
  /\ remotePayees = InitialPayees
  /\ remoteTxns = InitialTxns
  /\ remoteSched = <<>>
  /\ remoteBudgets \in {<<>>, <<1, 2>>}
  /\ budgetId \in (IF remoteBudgets = <<>> THEN {0} ELSE {0, 1})
  /\ invocations = 0
  /\ payees = <<>>
  /\ lastFetched = <<>>
  /\ tool = "main"
  /\ pc = "init_budgets"
  /\ arg = NoArg
  /\ loc = NoLoc
  /\ calls = <<>>
  /\ result = "none"
  /\ rQuery = <<>>
  /\ rResult = NoResult

(* Control *)

Running(t, p) == phase = "serving" /\ tool = t /\ pc = p

Goto(p, l) == pc' = p /\ result' = result /\ loc' = l

Return(r, l) == pc' = "done" /\ result' = r /\ loc' = l

Throw(l) == pc' = "done" /\ result' = "thrown" /\ loc' = l

\* A request whose failure response has the given error.detail.
RequestWith(method, res, status, body, detail) ==
  calls' = Append(calls, Call(method, res, status, body, detail))

\* A request whose failure response, if any, has no error.detail.
Request(method, res, status, body) ==
  RequestWith(method, res, status, body, Absent)

\* loc with one more resolution recorded.
Res(l, kind, r) == [l EXCEPT !.res = Append(@, [kind |-> kind, r |-> r])]

(* Startup: main() awaits client.initialize() before it registers a tool *)

\* The assignment of refreshCache, given the response to GET /payees.
\* refreshCache pushing the fetched payees onto the cached list.
refreshCache_Appends(status) ==
  /\ Request("GET", "payees", status, NoBody)
  /\ IF ok(status)
       THEN payees' = payees \o remotePayees /\ lastFetched' = remotePayees
       ELSE UNCHANGED <<payees, lastFetched>>

refreshCache(status) ==
  /\ Request("GET", "payees", status, NoBody)
  /\ IF ok(status)
       THEN payees' = remotePayees /\ lastFetched' = remotePayees
       ELSE UNCHANGED <<payees, lastFetched>>

InitBudgets(status) ==
  /\ phase = "starting" /\ pc = "init_budgets"
  /\ IF budgetId # 0
       THEN /\ status = 200
            /\ pc' = "init_refresh"
            /\ UNCHANGED <<budgetId, phase, calls>>
       ELSE /\ \E detail \in DetailArgs :
                 /\ (ok(status) => detail = Absent)
                 /\ RequestWith("GET", "budgets", status, NoBody, detail)
            /\ IF ok(status) /\ remoteBudgets # <<>>
                 THEN budgetId' = remoteBudgets[1] /\ pc' = "init_refresh"
                      /\ phase' = phase
                 ELSE budgetId' = budgetId /\ pc' = "exit" /\ phase' = "failed"
  /\ UNCHANGED <<remoteVars, invocations, payees, lastFetched, tool, arg, loc,
                 result, resolveVars>>

\* initialize() not awaiting the outcome of refreshCache.
InitRefresh_ServesOnFailure(status) ==
  /\ phase = "starting" /\ pc = "init_refresh"
  /\ refreshCache(status)
  /\ phase' = "serving" /\ pc' = "idle" /\ tool' = "none"
  /\ UNCHANGED <<remoteVars, budgetId, invocations, arg, loc, result, resolveVars>>

InitRefresh(status) ==
  /\ phase = "starting" /\ pc = "init_refresh"
  /\ refreshCache(status)
  /\ IF ok(status)
       THEN phase' = "serving" /\ pc' = "idle" /\ tool' = "none"
       ELSE phase' = "failed" /\ pc' = "exit" /\ tool' = tool
  /\ UNCHANGED <<remoteVars, budgetId, invocations, arg, loc, result, resolveVars>>

(* Dispatch *)

Tools ==
  {"create_transaction", "update_transaction", "create_scheduled_transaction",
   "set_category_budget", "update_category", "update_payee", "reconcile_account",
   "get_transactions", "get_accounts", "get_categories"}

Entry(t) ==
  IF t = "create_transaction" THEN "ct_account"
  ELSE IF t = "update_transaction" THEN "ut_begin"
  ELSE IF t = "create_scheduled_transaction" THEN "cs_account"
  ELSE IF t = "set_category_budget" THEN "sb_category"
  ELSE IF t = "update_category" THEN "uc_category"
  ELSE IF t = "update_payee" THEN "up_begin"
  ELSE IF t = "get_transactions" THEN "gt_account"
  ELSE IF t = "get_accounts" THEN "ga_list"
  ELSE IF t = "get_categories" THEN "gc_list"
  ELSE "ra_account"

Invoke(t) ==
  /\ phase = "serving" /\ pc \in {"idle", "done"}
  /\ invocations < MaxInvocations
  /\ invocations' = invocations + 1
  /\ tool' = t
  /\ pc' = Entry(t)
  /\ arg' = ArgsUnread
  /\ loc' = LocInit
  /\ calls' = <<>>
  /\ result' = "none"
  /\ UNCHANGED <<remoteVars, budgetId, payees, lastFetched, phase, resolveVars>>

(* The remote's side of a write *)

\* The payee list after a write that names a payee: a name no payee has yet
\* makes the remote create one.
WithPayee(ps, name) ==
  IF Truthy(name) /\ \A i \in DOMAIN ps : ps[i].name # name.v
    THEN Append(ps, [id |-> Len(ps) + 1, name |-> name.v])
    ELSE ps

\* The payee the remote gives a transaction sent with payee_id or payee_name.
PayeeOf(ps, payee_id, payee_name) ==
  IF payee_id # 0 THEN payee_id
  ELSE IF Truthy(payee_name)
    THEN LET qs == WithPayee(ps, payee_name)
         IN  (CHOOSE i \in DOMAIN qs : qs[i].name = payee_name.v
                /\ \A j \in 1..(i - 1) : qs[j].name # payee_name.v)
    ELSE 0

RECURSIVE WithPayees(_, _)
WithPayees(ps, ns) ==
  IF ns = <<>> THEN ps ELSE WithPayees(WithPayee(ps, Head(ns)), Tail(ns))

(* utils.ts *)

\* Math.round(usd * 1000): halves go up.  usd counts 1/10000 of a unit.
usdToMilliunits(usd) == (usd + 5) \div 10

\* parseDate, on the date arguments the model draws; "bad" makes it throw.
parseDate(d) == IF d = "iso" THEN Today - 100 ELSE Today

Abs(n) == IF n < 0 THEN -n ELSE n

RECURSIVE Sum(_)
Sum(ns) == IF ns = <<>> THEN 0 ELSE Head(ns) + Sum(Tail(ns))

(* create_transaction *)

Tolerance == 50   \* const tolerance = 0.005

\* The comparison without Math.abs.
SumMismatch_Signed(amount, subAmounts) ==
  Sum(subAmounts) - amount > Tolerance

\* Math.abs(subTotal - amount) > tolerance
SumMismatch(amount, subAmounts) ==
  Abs(Sum(subAmounts) - amount) > Tolerance

\* confirm_new_payee === false, which lets an absent flag through.
NotConfirmed_OnlyFalse(confirm) == confirm = "false"

\* !confirm_new_payee
NotConfirmed(confirm) == confirm # "true"

\* await client.findAccount(account) or await client.getAccountsFresh()
CT_Account(status, account) ==
  /\ Running("create_transaction", "ct_account")
  /\ arg' = [arg EXCEPT !.account = account]
  /\ Request("GET", "accounts", status, NoBody)
  /\ LET r == findAccount(account.v)
         accounts == getAccountsFresh
     IN  IF ~ok(status) THEN Throw(loc)
         ELSE IF Truthy(account)
           THEN IF r.hasError
                  THEN Return("error", Res(loc, "account", r))
                  ELSE Goto("ct_payee",
                            [Res(loc, "account", r) EXCEPT !.accountId = r.entity.id])
         ELSE IF Len(accounts) = 0
           THEN Return("error", loc)
           ELSE Goto("ct_payee", [loc EXCEPT !.accountId = accounts[1].id])
  /\ UNCHANGED <<remoteVars, payees, lastFetched, frame>>

\* client.findPayee(payee) and the branches on its result
CT_Payee(payee, confirm) ==
  /\ Running("create_transaction", "ct_payee")
  /\ LET r == findPayee(payee)
         l == Res(loc, "payee", r)
         read == ~r.isEntity /\ Len(r.matches) = 0 /\ r.isNew
     IN  /\ (~read => confirm = "undefined")
         /\ arg' = [arg EXCEPT !.payee = Some(payee), !.confirm_new_payee = confirm]
         /\ IF r.isEntity
              THEN Goto("ct_category", [l EXCEPT !.payeeId = r.entity.id])
            ELSE IF Len(r.matches) > 0
              THEN Return("error", l)
            ELSE IF r.isNew
              THEN IF NotConfirmed(confirm)
                     THEN Return("error", l)
                     ELSE Goto("ct_category", [l EXCEPT !.payeeName = Some(payee)])
            ELSE Goto("ct_category", l)
  /\ UNCHANGED <<remoteVars, payees, lastFetched, calls, frame>>

\* if (category) await client.findCategory(category)
CT_Category(status, category) ==
  /\ Running("create_transaction", "ct_category")
  /\ arg' = [arg EXCEPT !.category = category]
  /\ IF Truthy(category)
       THEN /\ Request("GET", "categories", status, NoBody)
            /\ LET r == findCategory(category.v)
               IN  IF ~ok(status) THEN Throw(loc)
                   ELSE IF r.hasError
                     THEN Return("error", Res(loc, "category", r))
                     ELSE Goto("ct_validate",
                               [Res(loc, "category", r) EXCEPT !.categoryId = r.entity.id])
       ELSE /\ status = 200
            /\ calls' = calls
            /\ Goto("ct_validate", loc)
  /\ UNCHANGED <<remoteVars, payees, lastFetched, frame>>

\* The date, then the sum of the sub-transactions against the parent amount.
CT_Validate(date, amount, subAmounts) ==
  /\ Running("create_transaction", "ct_validate")
  /\ arg' = [arg EXCEPT !.date = date, !.amount = Num(amount),
                        !.subAmounts = subAmounts]
  /\ IF date = "bad" THEN Throw(loc)
     ELSE IF Len(subAmounts) > 0
       THEN IF SumMismatch(amount, subAmounts)
              THEN Return("error", loc)
              ELSE Goto("ct_sub", [loc EXCEPT !.i = 1])
       ELSE Goto("ct_create", loc)
  /\ UNCHANGED <<remoteVars, payees, lastFetched, calls, frame>>

\* The loop going on to the next sub-transaction when a category is not resolved.
CT_Sub_SkipsFailed(status, category, payee) ==
  /\ Running("create_transaction", "ct_sub")
  /\ arg' = [arg EXCEPT !.subs = Append(@, [category |-> category, payee |-> payee])]
  /\ IF Truthy(category)
       THEN Request("GET", "categories", status, NoBody)
       ELSE status = 200 /\ calls' = calls
  /\ LET c == findCategory(category.v)
         p == findPayee(payee.v)
         l1 == IF Truthy(category) THEN Res(loc, "subcategory", c) ELSE loc
         l2 == IF Truthy(payee) THEN Res(l1, "subpayee", p) ELSE l1
         resolved ==
           [amount |-> usdToMilliunits(arg.subAmounts[loc.i]),
            category_id |-> IF Truthy(category) THEN c.entity.id ELSE 0,
            payee_id |-> IF Truthy(payee) /\ p.isEntity THEN p.entity.id ELSE 0,
            payee_name |-> IF Truthy(payee) /\ ~p.isEntity THEN payee ELSE Absent]
         l3 == [l2 EXCEPT !.resolved = Append(@, resolved)]
     IN  IF Truthy(category) /\ ~ok(status) THEN Throw(loc)
         ELSE IF Truthy(payee) /\ ~p.isEntity /\ Len(p.matches) > 0
           THEN Return("error", l2)
         ELSE IF loc.i < Len(arg.subAmounts)
           THEN Goto("ct_sub", [l3 EXCEPT !.i = loc.i + 1])
           ELSE Goto("ct_create", [l3 EXCEPT !.categoryId = 0])
  /\ UNCHANGED <<remoteVars, payees, lastFetched, frame>>

\* One iteration of the loop over the sub-transactions.
CT_Sub(status, category, payee) ==
  /\ Running("create_transaction", "ct_sub")
  /\ arg' = [arg EXCEPT !.subs = Append(@, [category |-> category, payee |-> payee])]
  /\ IF Truthy(category)
       THEN Request("GET", "categories", status, NoBody)
       ELSE status = 200 /\ calls' = calls
  /\ LET c == findCategory(category.v)
         p == findPayee(payee.v)
         l1 == IF Truthy(category) THEN Res(loc, "subcategory", c) ELSE loc
         l2 == IF Truthy(payee) THEN Res(l1, "subpayee", p) ELSE l1
         resolved ==
           [amount |-> usdToMilliunits(arg.subAmounts[loc.i]),
            category_id |-> IF Truthy(category) THEN c.entity.id ELSE 0,
            payee_id |-> IF Truthy(payee) /\ p.isEntity THEN p.entity.id ELSE 0,
            payee_name |-> IF Truthy(payee) /\ ~p.isEntity THEN payee ELSE Absent]
         l3 == [l2 EXCEPT !.resolved = Append(@, resolved)]
     IN  IF Truthy(category) /\ ~ok(status) THEN Throw(loc)
         ELSE IF Truthy(category) /\ c.hasError THEN Return("error", l1)
         ELSE IF Truthy(payee) /\ ~p.isEntity /\ Len(p.matches) > 0
           THEN Return("error", l2)
         ELSE IF loc.i < Len(arg.subAmounts)
           THEN Goto("ct_sub", [l3 EXCEPT !.i = loc.i + 1])
           ELSE Goto("ct_create", [l3 EXCEPT !.categoryId = 0])
  /\ UNCHANGED <<remoteVars, payees, lastFetched, frame>>

\* The body create_transaction passes to client.createTransaction.
CT_Body ==
  [account_id |-> loc.accountId, date |-> parseDate(arg.date),
   amount |-> usdToMilliunits(arg.amount.n), payee_id |-> loc.payeeId,
   payee_name |-> loc.payeeName, category_id |-> loc.categoryId,
   cleared |-> "uncleared", subtransactions |-> loc.resolved]

\* transaction.payee_name && !transaction.payee_id
CreatedPayee(body) == Truthy(body.payee_name) /\ body.payee_id = 0

\* YNABClient.createTransaction: the POST, at the remote and in the client.
createTransaction(status, body) ==
  /\ Request("POST", "transactions", status, body)
  /\ IF ok(status)
       THEN /\ remoteTxns' = Append(remoteTxns,
                 [id |-> Len(remoteTxns) + 1, account_id |-> body.account_id,
                  date |-> body.date, cleared |-> body.cleared,
                  category_id |-> body.category_id,
                  payee_id |-> PayeeOf(remotePayees, body.payee_id, body.payee_name)])
            /\ remotePayees' = WithPayees(WithPayee(remotePayees, body.payee_name),
                 [i \in DOMAIN body.subtransactions |->
                    body.subtransactions[i].payee_name])
            /\ IF CreatedPayee(body) THEN Goto("refresh", loc) ELSE Return("ok", loc)
       ELSE /\ UNCHANGED <<remoteTxns, remotePayees>>
            /\ Throw(loc)

CT_Create(status) ==
  /\ Running("create_transaction", "ct_create")
  /\ createTransaction(status, CT_Body)
  /\ UNCHANGED <<remoteAccounts, remoteGroups, remoteSched, remoteBudgets,
                 payees, lastFetched, arg, frame>>

\* await this.refreshCache() at the end of a client write, then the return.
RefreshCache(status) ==
  /\ phase = "serving" /\ pc = "refresh"
  /\ refreshCache(status)
  /\ IF ok(status) THEN Return("ok", loc) ELSE Throw(loc)
  /\ UNCHANGED <<remoteVars, arg, frame>>

(* update_transaction *)

\* Object.keys(updates).length
Keys(u) ==
  Cardinality({k \in {"cleared", "amount", "date", "memo", "payee_id", "payee_name",
                      "category_id", "name", "note", "goal_target"} :
     \/ k = "cleared" /\ u.cleared # "undefined"
     \/ k = "amount" /\ u.amount.has
     \/ k = "date" /\ u.date # 0
     \/ k = "memo" /\ u.memo
     \/ k = "payee_id" /\ u.payee_id # 0
     \/ k = "payee_name" /\ u.payee_name.has
     \/ k = "category_id" /\ u.category_id # 0
     \/ k = "name" /\ u.name.has
     \/ k = "note" /\ u.note
     \/ k = "goal_target" /\ u.goal_target.has})

\* updates.payee_name && !updates.payee_id
UpdatedPayee(u) == Truthy(u.payee_name) /\ u.payee_id = 0

\* The transactions after the remote has applied a PUT of u to transaction id.
Updated(txns, id, u) ==
  [i \in DOMAIN txns |->
     IF txns[i].id = id
       THEN [txns[i] EXCEPT
               !.cleared = IF u.cleared # "undefined" THEN u.cleared ELSE @,
               !.date = IF u.date # 0 THEN u.date ELSE @,
               !.category_id = IF u.category_id # 0 THEN u.category_id ELSE @,
               !.payee_id = IF u.payee_id # 0 \/ Truthy(u.payee_name)
                              THEN PayeeOf(remotePayees, u.payee_id, u.payee_name)
                              ELSE @]
       ELSE txns[i]]

Exists(id) == \E i \in DOMAIN remoteTxns : remoteTxns[i].id = id

\* The synchronous head of the handler: the fields, then the payee.
UT_Begin(cleared, amount, date, memo, payee) ==
  /\ Running("update_transaction", "ut_begin")
  /\ (date = "bad" => payee = Absent)
  /\ arg' = [arg EXCEPT !.cleared = cleared, !.amount = amount, !.date = date,
                        !.memo = memo, !.payee = payee]
  /\ LET u == [NoUpdates EXCEPT
                 !.cleared = cleared,
                 !.amount = IF amount.has THEN Num(usdToMilliunits(amount.n))
                            ELSE AbsentNum,
                 !.date = IF date = "undefined" THEN 0 ELSE parseDate(date),
                 !.memo = memo]
         r == findPayee(payee.v)
         l == Res(loc, "payee", r)
     IN  IF date = "bad" THEN Throw(loc)
         ELSE IF ~Truthy(payee) THEN Goto("ut_category", [loc EXCEPT !.updates = u])
         ELSE IF r.isEntity
           THEN Goto("ut_category",
                     [l EXCEPT !.updates = [u EXCEPT !.payee_id = r.entity.id]])
         ELSE IF Len(r.matches) > 0 THEN Return("error", l)
         ELSE Goto("ut_category",
                   [l EXCEPT !.updates = [u EXCEPT !.payee_name = payee]])
  /\ UNCHANGED <<remoteVars, payees, lastFetched, calls, frame>>

\* if (category) await client.findCategory(category); then the empty check.
UT_Category(status, category) ==
  /\ Running("update_transaction", "ut_category")
  /\ arg' = [arg EXCEPT !.category = category]
  /\ IF Truthy(category)
       THEN Request("GET", "categories", status, NoBody)
       ELSE status = 200 /\ calls' = calls
  /\ LET r == findCategory(category.v)
         l == IF Truthy(category) THEN Res(loc, "category", r) ELSE loc
         u == IF Truthy(category) /\ ~r.hasError
                THEN [loc.updates EXCEPT !.category_id = r.entity.id]
                ELSE loc.updates
     IN  IF Truthy(category) /\ ~ok(status) THEN Throw(loc)
         ELSE IF Truthy(category) /\ r.hasError THEN Return("error", l)
         ELSE IF Keys(u) = 0 THEN Return("error", l)
         ELSE Goto("ut_put", [l EXCEPT !.updates = u])
  /\ UNCHANGED <<remoteVars, payees, lastFetched, frame>>

\* YNABClient.updateTransaction: the PUT, at the remote and in the client.
UT_Put(status, transaction_id) ==
  /\ Running("update_transaction", "ut_put")
  /\ (ok(status) => Exists(transaction_id))
  /\ arg' = [arg EXCEPT !.transaction_id = transaction_id]
  /\ Request("PUT", "transactions", status,
             [id |-> transaction_id, updates |-> loc.updates])
  /\ IF ok(status)
       THEN /\ remoteTxns' = Updated(remoteTxns, transaction_id, loc.updates)
            /\ remotePayees' = WithPayee(remotePayees, loc.updates.payee_name)
            /\ IF UpdatedPayee(loc.updates)
                 THEN Goto("refresh", loc) ELSE Return("ok", loc)
       ELSE /\ UNCHANGED <<remoteTxns, remotePayees>>
            /\ Throw(loc)
  /\ UNCHANGED <<remoteAccounts, remoteGroups, remoteSched, remoteBudgets,
                 payees, lastFetched, frame>>

(* create_scheduled_transaction *)

CS_Account(status, account, payee, confirm) ==
  /\ Running("create_scheduled_transaction", "cs_account")
  /\ Request("GET", "accounts", status, NoBody)
  /\ LET a == findAccount(account.v)
         accounts == getAccountsFresh
         stop == \/ ~ok(status)
                 \/ Truthy(account) /\ a.hasError
                 \/ ~Truthy(account) /\ Len(accounts) = 0
         l1 == IF Truthy(account)
                 THEN [Res(loc, "account", a) EXCEPT !.accountId = a.entity.id]
                 ELSE [loc EXCEPT !.accountId = accounts[1].id]
         r == findPayee(payee.v)
         l2 == Res(l1, "payee", r)
         read == ~stop /\ ~r.isEntity /\ Len(r.matches) = 0 /\ r.isNew
     IN  /\ (stop => payee = Absent)
         /\ (~stop => payee.has)
         /\ (~read => confirm = "undefined")
         /\ arg' = [arg EXCEPT !.account = account, !.payee = payee,
                               !.confirm_new_payee = confirm]
         /\ IF ~ok(status) THEN Throw(loc)
            ELSE IF Truthy(account) /\ a.hasError
              THEN Return("error", Res(loc, "account", a))
            ELSE IF ~Truthy(account) /\ Len(accounts) = 0 THEN Throw(loc)
            ELSE IF r.isEntity
              THEN Goto("cs_category", [l2 EXCEPT !.payeeId = r.entity.id])
            ELSE IF Len(r.matches) > 0 THEN Return("error", l2)
            ELSE IF r.isNew /\ NotConfirmed(confirm) THEN Return("error", l2)
            ELSE Goto("cs_category", [l2 EXCEPT !.payeeName = payee])
  /\ UNCHANGED <<remoteVars, payees, lastFetched, frame>>

CS_Category(status, category, date) ==
  /\ Running("create_scheduled_transaction", "cs_category")
  /\ IF Truthy(category)
       THEN Request("GET", "categories", status, NoBody)
       ELSE status = 200 /\ calls' = calls
  /\ LET r == findCategory(category.v)
         stop == Truthy(category) /\ (~ok(status) \/ r.hasError)
     IN  /\ (stop => date = "undefined")
         /\ (~stop => date \in StartDateArgs)
         /\ arg' = [arg EXCEPT !.category = category, !.date = date]
         /\ IF Truthy(category) /\ ~ok(status) THEN Throw(loc)
            ELSE IF Truthy(category) /\ r.hasError
              THEN Return("error", Res(loc, "category", r))
            ELSE IF date = "bad"
              THEN Throw(IF Truthy(category) THEN Res(loc, "category", r) ELSE loc)
            ELSE IF Truthy(category)
              THEN Goto("cs_post",
                        [Res(loc, "category", r) EXCEPT !.categoryId = r.entity.id])
            ELSE Goto("cs_post", loc)
  /\ UNCHANGED <<remoteVars, payees, lastFetched, frame>>

\* YNABClient.createScheduledTransaction: the POST and nothing after it.
CS_Post(status, amount) ==
  /\ Running("create_scheduled_transaction", "cs_post")
  /\ arg' = [arg EXCEPT !.amount = Num(amount)]
  /\ Request("POST", "scheduled_transactions", status,
             [account_id |-> loc.accountId, date |-> parseDate(arg.date),
              amount |-> usdToMilliunits(amount), payee_id |-> loc.payeeId,
              payee_name |-> loc.payeeName, category_id |-> loc.categoryId,
              cleared |-> "undefined", subtransactions |-> <<>>])
  /\ IF ok(status)
       THEN /\ remoteSched' = Append(remoteSched,
                 [id |-> Len(remoteSched) + 1, account_id |-> loc.accountId])
            /\ remotePayees' = WithPayee(remotePayees, loc.payeeName)
            /\ Return("ok", loc)
       ELSE /\ UNCHANGED <<remoteSched, remotePayees>>
            /\ Throw(loc)
  /\ UNCHANGED <<remoteAccounts, remoteGroups, remoteTxns, remoteBudgets,
                 payees, lastFetched, frame>>

(* set_category_budget and update_category (tools/categories.ts) *)

SB_Category(status, category, month) ==
  /\ Running("set_category_budget", "sb_category")
  /\ Request("GET", "categories", status, NoBody)
  /\ LET r == findCategory(category)
         stop == ~ok(status) \/ r.hasError
     IN  /\ (stop => month = "undefined")
         /\ (~stop => month \in MonthArgs)
         /\ arg' = [arg EXCEPT !.category = Some(category), !.month = month]
         /\ IF ~ok(status) THEN Throw(loc)
            ELSE IF r.hasError THEN Return("error", Res(loc, "category", r))
            ELSE IF month = "bad" THEN Throw(Res(loc, "category", r))
            ELSE Goto("sb_patch",
                      [Res(loc, "category", r) EXCEPT !.categoryId = r.entity.id])
  /\ UNCHANGED <<remoteVars, payees, lastFetched, frame>>

\* YNABClient.updateMonthCategoryBudget
SB_Patch(status, amount) ==
  /\ Running("set_category_budget", "sb_patch")
  /\ arg' = [arg EXCEPT !.amount = Num(amount)]
  /\ Request("PATCH", "month_category", status,
             [id |-> loc.categoryId, budgeted |-> usdToMilliunits(amount)])
  /\ IF ok(status) THEN Return("ok", loc) ELSE Throw(loc)
  /\ UNCHANGED <<remoteVars, payees, lastFetched, frame>>

UC_Category(status, category, name, note, goal_target) ==
  /\ Running("update_category", "uc_category")
  /\ Request("GET", "categories", status, NoBody)
  /\ LET r == findCategory(category)
         stop == ~ok(status) \/ r.hasError
         u == [NoUpdates EXCEPT
                 !.name = name, !.note = note,
                 !.goal_target = IF goal_target.has
                                   THEN Num(usdToMilliunits(goal_target.n))
                                   ELSE AbsentNum]
         l == Res(loc, "category", r)
     IN  /\ (stop => name = Absent /\ ~note /\ goal_target = AbsentNum)
         /\ arg' = [arg EXCEPT !.category = Some(category), !.name = name,
                               !.note = note, !.goal_target = goal_target]
         /\ IF ~ok(status) THEN Throw(loc)
            ELSE IF r.hasError THEN Return("error", l)
            ELSE IF Keys(u) = 0 THEN Return("error", l)
            ELSE Goto("uc_patch",
                      [l EXCEPT !.categoryId = r.entity.id, !.updates = u])
  /\ UNCHANGED <<remoteVars, payees, lastFetched, frame>>

\* The groups after the remote has renamed category id.
Renamed(groups, id, name) ==
  [g \in DOMAIN groups |->
     [groups[g] EXCEPT !.categories =
        [c \in DOMAIN @ |-> IF @[c].id = id /\ name.has
                              THEN [@[c] EXCEPT !.name = name.v] ELSE @[c]]]]

\* YNABClient.updateCategory
UC_Patch(status) ==
  /\ Running("update_category", "uc_patch")
  /\ Request("PATCH", "categories", status,
             [id |-> loc.categoryId, updates |-> loc.updates])
  /\ IF ok(status)
       THEN /\ remoteGroups' = Renamed(remoteGroups, loc.categoryId, loc.updates.name)
            /\ Return("ok", loc)
       ELSE /\ UNCHANGED remoteGroups
            /\ Throw(loc)
  /\ UNCHANGED <<remoteAccounts, remotePayees, remoteTxns, remoteSched,
                 remoteBudgets, payees, lastFetched, arg, frame>>

(* update_payee (tools/payees.ts) *)

\* update_payee taking the first of several matches.
UP_Begin_TakesFirst(payee) ==
  /\ Running("update_payee", "up_begin")
  /\ arg' = [arg EXCEPT !.payee = Some(payee)]
  /\ LET r == findPayee(payee)
         l == Res(loc, "payee", r)
     IN  IF r.isEntity THEN Goto("up_patch", [l EXCEPT !.payeeId = r.entity.id])
         ELSE IF Len(r.matches) > 0
           THEN Goto("up_patch", [l EXCEPT !.payeeId = r.matches[1].id])
         ELSE Return("error", l)
  /\ UNCHANGED <<remoteVars, payees, lastFetched, calls, frame>>

UP_Begin(payee) ==
  /\ Running("update_payee", "up_begin")
  /\ arg' = [arg EXCEPT !.payee = Some(payee)]
  /\ LET r == findPayee(payee)
         l == Res(loc, "payee", r)
     IN  IF ~r.isEntity THEN Return("error", l)
         ELSE Goto("up_patch", [l EXCEPT !.payeeId = r.entity.id])
  /\ UNCHANGED <<remoteVars, payees, lastFetched, calls, frame>>

\* YNABClient.updatePayee: the PATCH; refreshCache follows unconditionally.
UP_Patch(status, name) ==
  /\ Running("update_payee", "up_patch")
  /\ arg' = [arg EXCEPT !.name = Some(name)]
  /\ Request("PATCH", "payees", status, [id |-> loc.payeeId, name |-> name])
  /\ IF ok(status)
       THEN /\ remotePayees' =
                 [i \in DOMAIN remotePayees |->
                    IF remotePayees[i].id = loc.payeeId
                      THEN [remotePayees[i] EXCEPT !.name = name]
                      ELSE remotePayees[i]]
            /\ Goto("refresh", loc)
       ELSE /\ UNCHANGED remotePayees
            /\ Throw(loc)
  /\ UNCHANGED <<remoteAccounts, remoteGroups, remoteTxns, remoteSched,
                 remoteBudgets, payees, lastFetched, frame>>

(* reconcile_account (tools/accounts.ts) *)

ReconciliationPayee == <<"R", "B", "A">>   \* "Reconciliation Balance Adjustment"

\* Array.prototype.sort((a, b) => b.date.localeCompare(a.date)): stable,
\* latest date first.
RECURSIVE InsertDesc(_, _)
InsertDesc(t, sorted) ==
  IF sorted = <<>> THEN <<t>>
  ELSE IF Head(sorted).date >= t.date
    THEN <<Head(sorted)>> \o InsertDesc(t, Tail(sorted))
    ELSE <<t>> \o sorted

RECURSIVE sortDesc(_)
sortDesc(ts) ==
  IF ts = <<>> THEN <<>>
  ELSE InsertDesc(ts[Len(ts)], sortDesc(SubSeq(ts, 1, Len(ts) - 1)))

\* The order of the remote's listings: by date, earliest first.
RECURSIVE InsertAsc(_, _)
InsertAsc(t, sorted) ==
  IF sorted = <<>> THEN <<t>>
  ELSE IF Head(sorted).date <= t.date
    THEN <<Head(sorted)>> \o InsertAsc(t, Tail(sorted))
    ELSE <<t>> \o sorted

RECURSIVE ascending(_)
ascending(ts) ==
  IF ts = <<>> THEN <<>>
  ELSE InsertAsc(ts[Len(ts)], ascending(SubSeq(ts, 1, Len(ts) - 1)))

Epoch == 0   \* sinceDate: "1900-01-01", as a day number

\* What GET /accounts/{id}/transactions?since_date=... returns.
AccountTransactions(accountId, since) ==
  ascending(SelectSeq(remoteTxns,
                      LAMBDA t : t.account_id = accountId /\ t.date >= since))

\* The filter keeping everything not yet reconciled.
clearedTransactions_NotReconciled(all) ==
  SelectSeq(all, LAMBDA t : t.cleared # "reconciled")

\* allTransactions.filter(t => t.cleared === "cleared")
clearedTransactions(all) ==
  SelectSeq(all, LAMBDA t : t.cleared = "cleared")

\* The count the text of the result gives: "Transactions reconciled: N".
ReportedCount ==
  IF result = "ok" THEN Num(loc.reconciledCount) ELSE AbsentNum

\* The adjustment made whenever a balance is supplied.
RA_AfterLoop_Always(balance, l) ==
  LET targetMilliunits == usdToMilliunits(balance.n)
      clearedBalance == l.account.cleared_balance
  IN  IF balance.has
        THEN Goto("ra_adjust",
                  [l EXCEPT !.adjustment = targetMilliunits - clearedBalance])
        ELSE Return("ok", l)

\* The code after the loop: the balance adjustment, or the return.
RA_AfterLoop(balance, l) ==
  LET targetMilliunits == usdToMilliunits(balance.n)
      clearedBalance == l.account.cleared_balance
  IN  IF balance.has /\ targetMilliunits # clearedBalance
        THEN Goto("ra_adjust",
                  [l EXCEPT !.adjustment = targetMilliunits - clearedBalance])
        ELSE Return("ok", l)

RA_Account(status, account) ==
  /\ Running("reconcile_account", "ra_account")
  /\ arg' = [arg EXCEPT !.account = Some(account)]
  /\ Request("GET", "accounts", status, NoBody)
  /\ LET r == findAccount(account)
         l == Res(loc, "account", r)
     IN  IF ~ok(status) THEN Throw(loc)
         ELSE IF r.hasError THEN Return("error", l)
         ELSE Goto("ra_list", [l EXCEPT !.account = r.entity,
                                        !.accountId = r.entity.id])
  /\ UNCHANGED <<remoteVars, payees, lastFetched, frame>>

\* client.getTransactions({accountId, sinceDate: "1900-01-01"}) and the filter
RA_List(status, balance) ==
  /\ Running("reconcile_account", "ra_list")
  /\ Request("GET", "account_transactions", status,
             [id |-> loc.accountId, since_date |-> Epoch])
  /\ LET allTransactions == sortDesc(AccountTransactions(loc.accountId, Epoch))
         cleared == clearedTransactions(allTransactions)
         l == [loc EXCEPT !.allTransactions = allTransactions,
                          !.queue = [i \in DOMAIN cleared |-> cleared[i].id]]
         after == ok(status) /\ cleared = <<>>
     IN  /\ (~after => balance = AbsentNum)
         /\ arg' = [arg EXCEPT !.balance = balance]
         /\ IF ~ok(status) THEN Throw(loc)
            ELSE IF cleared = <<>> THEN RA_AfterLoop(balance, l)
            ELSE Goto("ra_update", l)
  /\ UNCHANGED <<remoteVars, payees, lastFetched, frame>>

\* The loop taking the transactions from the end of the list.
RA_Update_FromEnd(status, balance) ==
  /\ Running("reconcile_account", "ra_update")
  /\ LET id == loc.queue[Len(loc.queue)]
         u == [NoUpdates EXCEPT !.cleared = "reconciled"]
         l == [loc EXCEPT !.queue = SubSeq(@, 1, Len(@) - 1), !.reconciledCount = @ + 1]
         after == ok(status) /\ l.queue = <<>>
     IN  /\ (~after => balance = AbsentNum)
         /\ arg' = [arg EXCEPT !.balance = balance]
         /\ Request("PUT", "transactions", status, [id |-> id, updates |-> u])
         /\ IF ok(status)
              THEN /\ remoteTxns' = Updated(remoteTxns, id, u)
                   /\ IF l.queue = <<>> THEN RA_AfterLoop(balance, l)
                      ELSE Goto("ra_update", l)
              ELSE /\ UNCHANGED remoteTxns
                   /\ Throw(loc)
  /\ UNCHANGED <<remoteAccounts, remoteGroups, remotePayees, remoteSched,
                 remoteBudgets, payees, lastFetched, frame>>

\* The loop catching a failed update and going on with the next transaction.
RA_Update_ContinuesOnFailure(status, balance) ==
  /\ Running("reconcile_account", "ra_update")
  /\ LET id == Head(loc.queue)
         u == [NoUpdates EXCEPT !.cleared = "reconciled"]
         l == [loc EXCEPT !.queue = Tail(@),
                          !.reconciledCount = IF ok(status) THEN @ + 1 ELSE @]
         after == l.queue = <<>>
     IN  /\ (~after => balance = AbsentNum)
         /\ arg' = [arg EXCEPT !.balance = balance]
         /\ Request("PUT", "transactions", status, [id |-> id, updates |-> u])
         /\ remoteTxns' = IF ok(status) THEN Updated(remoteTxns, id, u) ELSE remoteTxns
         /\ IF l.queue = <<>> THEN RA_AfterLoop(balance, l)
            ELSE Goto("ra_update", l)
  /\ UNCHANGED <<remoteAccounts, remoteGroups, remotePayees, remoteSched,
                 remoteBudgets, payees, lastFetched, frame>>

\* One iteration: await client.updateTransaction(t.id, {cleared: "reconciled"})
RA_Update(status, balance) ==
  /\ Running("reconcile_account", "ra_update")
  /\ LET id == Head(loc.queue)
         u == [NoUpdates EXCEPT !.cleared = "reconciled"]
         l == [loc EXCEPT !.queue = Tail(@), !.reconciledCount = @ + 1]
         after == ok(status) /\ l.queue = <<>>
     IN  /\ (~after => balance = AbsentNum)
         /\ arg' = [arg EXCEPT !.balance = balance]
         /\ Request("PUT", "transactions", status, [id |-> id, updates |-> u])
         /\ IF ok(status)
              THEN /\ remoteTxns' = Updated(remoteTxns, id, u)
                   /\ IF l.queue = <<>> THEN RA_AfterLoop(balance, l)
                      ELSE Goto("ra_update", l)
              ELSE /\ UNCHANGED remoteTxns
                   /\ Throw(loc)
  /\ UNCHANGED <<remoteAccounts, remoteGroups, remotePayees, remoteSched,
                 remoteBudgets, payees, lastFetched, frame>>

\* The adjustment: client.createTransaction with the fixed payee name.
RA_Adjust(status) ==
  /\ Running("reconcile_account", "ra_adjust")
  /\ createTransaction(status,
       [account_id |-> loc.accountId, date |-> Today, amount |-> loc.adjustment,
        payee_id |-> 0, payee_name |-> Some(ReconciliationPayee),
        category_id |-> 0, cleared |-> "reconciled", subtransactions |-> <<>>])
  /\ UNCHANGED <<remoteAccounts, remoteGroups, remoteSched, remoteBudgets,
                 payees, lastFetched, arg, frame>>

(* get_transactions *)

DefaultLimit == 20   \* limit = 20, options.limit ?? 20

windowDays == <<30, 90, 180, 365>>

\* The endpoint picked with the precedence reversed.
Endpoint_PayeeFirst(l) ==
  IF l.payeeId # 0 THEN [kind |-> "payees", id |-> l.payeeId]
  ELSE IF l.categoryId # 0 THEN [kind |-> "categories", id |-> l.categoryId]
  ELSE IF l.accountId # 0 THEN [kind |-> "accounts", id |-> l.accountId]
  ELSE [kind |-> "all", id |-> 0]

\* The endpoint getTransactions picks: account over category over payee.
Endpoint(l) ==
  IF l.accountId # 0 THEN [kind |-> "accounts", id |-> l.accountId]
  ELSE IF l.categoryId # 0 THEN [kind |-> "categories", id |-> l.categoryId]
  ELSE IF l.payeeId # 0 THEN [kind |-> "payees", id |-> l.payeeId]
  ELSE [kind |-> "all", id |-> 0]

\* What the remote returns for GET <endpoint>?since_date=...: earliest first.
Listing(e, since) ==
  ascending(SelectSeq(remoteTxns, LAMBDA t :
    /\ (since.has => t.date >= since.n)
    /\ \/ e.kind = "all"
       \/ e.kind = "accounts" /\ t.account_id = e.id
       \/ e.kind = "categories" /\ t.category_id = e.id
       \/ e.kind = "payees" /\ t.payee_id = e.id))

\* The window test accepting any window that is not empty.
WindowFull_NonEmpty(n, limit) == n > 0

\* The window test with > for >=.
WindowFull_Strict(n, limit) == n > limit

\* data.transactions.length >= limit
WindowFull(n, limit) == n >= limit

\* The loop over windowDays from window i on, and the request after it: the
\* data of the first window that is full, or of the request with no since_date.
RECURSIVE windowed(_, _, _)
windowed(e, limit, i) ==
  IF i > Len(windowDays) THEN Listing(e, AbsentNum)
  ELSE LET data == Listing(e, Num(Today - windowDays[i]))
       IN  IF WindowFull(Len(data), limit) THEN data
           ELSE windowed(e, limit, i + 1)

\* YNABClient.getTransactions when every request succeeds.
getTransactions(e, sinceDate, limit) ==
  sortDesc(IF sinceDate.has THEN Listing(e, sinceDate) ELSE windowed(e, limit, 1))

\* The return without the sort.
GT_Finish_Unsorted(data) ==
  Return("ok", [loc EXCEPT !.transactions = data,
                           !.limited = slice(data, loc.limit)])

\* The return of getTransactions and the handler's transactions.slice(0, limit).
GT_Finish(data) ==
  LET transactions == sortDesc(data)
  IN  Return("ok", [loc EXCEPT !.transactions = transactions,
                               !.limited = slice(transactions, loc.limit)])

\* if (since_date) parseDate(since_date); if (account) await findAccount(account)
GT_Account(status, since_date, account) ==
  /\ Running("get_transactions", "gt_account")
  /\ (since_date = "bad" => account = Absent)
  /\ arg' = [arg EXCEPT !.since_date = since_date, !.account = account]
  /\ IF since_date # "bad" /\ Truthy(account)
       THEN Request("GET", "accounts", status, NoBody)
       ELSE status = 200 /\ calls' = calls
  /\ LET r == findAccount(account.v)
         l == [loc EXCEPT !.sinceDate = IF since_date = "undefined" THEN AbsentNum
                                        ELSE Num(parseDate(since_date))]
     IN  IF since_date = "bad" THEN Throw(loc)
         ELSE IF ~Truthy(account) THEN Goto("gt_category", l)
         ELSE IF ~ok(status) THEN Throw(l)
         ELSE IF r.hasError THEN Return("error", Res(l, "account", r))
         ELSE Goto("gt_category", [Res(l, "account", r) EXCEPT !.accountId = r.entity.id])
  /\ UNCHANGED <<remoteVars, payees, lastFetched, frame>>

\* The handler refusing a payee that matches no cached payee.
GT_Category_RejectsUnknownPayee(status, category, payee, limit) ==
  /\ Running("get_transactions", "gt_category")
  /\ IF Truthy(category)
       THEN Request("GET", "categories", status, NoBody)
       ELSE status = 200 /\ calls' = calls
  /\ LET c == findCategory(category.v)
         p == findPayee(payee.v)
         l1 == IF Truthy(category) THEN Res(loc, "category", c) ELSE loc
         l2 == IF Truthy(category) /\ ~c.hasError
                 THEN [l1 EXCEPT !.categoryId = c.entity.id] ELSE l1
         l3 == IF Truthy(payee) THEN Res(l2, "payee", p) ELSE l2
         l4 == IF Truthy(payee) /\ p.isEntity
                 THEN [l3 EXCEPT !.payeeId = p.entity.id] ELSE l3
         l5 == [l4 EXCEPT !.limit = IF limit.has THEN limit.n ELSE DefaultLimit,
                          !.i = 1]
         stop1 == Truthy(category) /\ (~ok(status) \/ c.hasError)
         stop2 == Truthy(payee) /\ ~p.isEntity
     IN  /\ (stop1 => payee = Absent)
         /\ (stop1 \/ stop2 => limit = AbsentNum)
         /\ arg' = [arg EXCEPT !.category = category, !.payee = payee,
                               !.limit = limit]
         /\ IF Truthy(category) /\ ~ok(status) THEN Throw(loc)
            ELSE IF stop1 THEN Return("error", l1)
            ELSE IF stop2 THEN Return("error", l3)
            ELSE IF loc.sinceDate.has THEN Goto("gt_final", l5)
            ELSE Goto("gt_window", l5)
  /\ UNCHANGED <<remoteVars, payees, lastFetched, frame>>

\* if (category) await findCategory(category); if (payee) findPayee(payee);
\* then the call of client.getTransactions({...options, limit}).
GT_Category(status, category, payee, limit) ==
  /\ Running("get_transactions", "gt_category")
  /\ IF Truthy(category)
       THEN Request("GET", "categories", status, NoBody)
       ELSE status = 200 /\ calls' = calls
  /\ LET c == findCategory(category.v)
         p == findPayee(payee.v)
         l1 == IF Truthy(category) THEN Res(loc, "category", c) ELSE loc
         l2 == IF Truthy(category) /\ ~c.hasError
                 THEN [l1 EXCEPT !.categoryId = c.entity.id] ELSE l1
         l3 == IF Truthy(payee) THEN Res(l2, "payee", p) ELSE l2
         l4 == IF Truthy(payee) /\ p.isEntity
                 THEN [l3 EXCEPT !.payeeId = p.entity.id] ELSE l3
         l5 == [l4 EXCEPT !.limit = IF limit.has THEN limit.n ELSE DefaultLimit,
                          !.i = 1]
         stop1 == Truthy(category) /\ (~ok(status) \/ c.hasError)
         stop2 == Truthy(payee) /\ ~p.isEntity /\ Len(p.matches) > 0
     IN  /\ (stop1 => payee = Absent)
         /\ (stop1 \/ stop2 => limit = AbsentNum)
         /\ arg' = [arg EXCEPT !.category = category, !.payee = payee,
                               !.limit = limit]
         /\ IF Truthy(category) /\ ~ok(status) THEN Throw(loc)
            ELSE IF stop1 THEN Return("error", l1)
            ELSE IF stop2 THEN Return("error", l3)
            ELSE IF loc.sinceDate.has THEN Goto("gt_final", l5)
            ELSE Goto("gt_window", l5)
  /\ UNCHANGED <<remoteVars, payees, lastFetched, frame>>

\* One pass of the loop over windowDays in YNABClient.getTransactions.
GT_Window(status) ==
  /\ Running("get_transactions", "gt_window")
  /\ LET since == Num(Today - windowDays[loc.i])
         data == Listing(Endpoint(loc), since)
     IN  /\ Request("GET", "transactions", status,
                    [endpoint |-> Endpoint(loc), since_date |-> since])
         /\ IF ~ok(status) THEN Throw(loc)
            ELSE IF WindowFull(Len(data), loc.limit) THEN GT_Finish(data)
            ELSE IF loc.i < Len(windowDays)
              THEN Goto("gt_window", [loc EXCEPT !.i = loc.i + 1])
            ELSE Goto("gt_final", loc)
  /\ UNCHANGED <<remoteVars, payees, lastFetched, arg, frame>>

\* The request after the loop: with options.sinceDate, or with no since_date.
GT_Final(status) ==
  /\ Running("get_transactions", "gt_final")
  /\ Request("GET", "transactions", status,
             [endpoint |-> Endpoint(loc), since_date |-> loc.sinceDate])
  /\ IF ok(status) THEN GT_Finish(Listing(Endpoint(loc), loc.sinceDate))
     ELSE Throw(loc)
  /\ UNCHANGED <<remoteVars, payees, lastFetched, arg, frame>>

(* get_accounts (tools/accounts.ts) and get_categories (tools/categories.ts) *)

\* const accounts = await client.getAccountsFresh(); one line per account
GA_List(status) ==
  /\ Running("get_accounts", "ga_list")
  /\ Request("GET", "accounts", status, NoBody)
  /\ LET accounts == getAccountsFresh
     IN  IF ok(status)
           THEN Return("ok", [loc EXCEPT !.list =
                                [i \in DOMAIN accounts |-> accounts[i].id]])
           ELSE Throw(loc)
  /\ UNCHANGED <<remoteVars, payees, lastFetched, arg, frame>>

\* const { groups } = await client.getCategoriesFresh(); one line per category
\* of g.categories.filter(c => !c.hidden), under its group
GC_List(status) ==
  /\ Running("get_categories", "gc_list")
  /\ Request("GET", "categories", status, NoBody)
  /\ LET groups == getGroupsFresh
         cats == flatten([i \in DOMAIN groups |->
                           SelectSeq(groups[i].categories, LAMBDA c : ~c.hidden)])
     IN  IF ok(status)
           THEN Return("ok", [loc EXCEPT !.list =
                                [i \in DOMAIN cats |-> cats[i].id]])
           ELSE Throw(loc)
  /\ UNCHANGED <<remoteVars, payees, lastFetched, arg, frame>>

-----------------------------------------------------------------------------

Next ==
  \/ \E status \in Statuses : InitBudgets(status)
  \/ \E status \in Statuses : InitRefresh(status)
  \/ \E t \in Tools : Invoke(t)
  \/ \E status \in HStatuses, account \in AccountArgs : CT_Account(status, account)
  \/ \E payee \in PayeeArgs, confirm \in ConfirmArgs : CT_Payee(payee, confirm)
  \/ \E status \in HStatuses, category \in CategoryArgs : CT_Category(status, category)
  \/ \E date \in DateArgs, amount \in ParentAmounts,
        subAmounts \in SeqsUpTo(SubAmounts, MaxSubs) :
       CT_Validate(date, amount, subAmounts)
  \/ \E status \in HStatuses, category \in CategoryArgs, payee \in OptPayeeArgs :
       CT_Sub(status, category, payee)
  \/ \E status \in HStatuses : CT_Create(status)
  \/ \E status \in HStatuses : RefreshCache(status)
  \/ \E cleared \in ClearedArgs, amount \in AmountArgs, date \in UpdateDateArgs,
        memo \in BOOLEAN, payee \in OptPayeeArgs :
       UT_Begin(cleared, amount, date, memo, payee)
  \/ \E status \in HStatuses, category \in CategoryArgs : UT_Category(status, category)
  \/ \E status \in HStatuses, id \in TxnArgs : UT_Put(status, id)
  \/ \E status \in HStatuses, account \in AccountArgs, payee \in OptPayeeArgs,
        confirm \in ConfirmArgs :
       CS_Account(status, account, payee, confirm)
  \/ \E status \in HStatuses, category \in CategoryArgs,
        date \in StartDateArgs \cup {"undefined"} :
       CS_Category(status, category, date)
  \/ \E status \in HStatuses, amount \in ParentAmounts : CS_Post(status, amount)
  \/ \E status \in HStatuses, category \in RequiredCategoryArgs,
        month \in MonthArgs \cup {"undefined"} :
       SB_Category(status, category, month)
  \/ \E status \in HStatuses, amount \in ParentAmounts : SB_Patch(status, amount)
  \/ \E status \in HStatuses, category \in RequiredCategoryArgs,
        name \in OptNewNameArgs, note \in BOOLEAN, goal \in GoalArgs :
       UC_Category(status, category, name, note, goal)
  \/ \E status \in HStatuses : UC_Patch(status)
  \/ \E payee \in PayeeArgs : UP_Begin(payee)
  \/ \E status \in HStatuses, name \in NewNameArgs : UP_Patch(status, name)
  \/ \E status \in HStatuses, account \in RequiredAccountArgs : RA_Account(status, account)
  \/ \E status \in HStatuses, balance \in BalanceArgs : RA_List(status, balance)
  \/ \E status \in HStatuses, balance \in BalanceArgs : RA_Update(status, balance)
  \/ \E status \in HStatuses : RA_Adjust(status)
  \/ \E status \in HStatuses, since_date \in SinceArgs, account \in AccountArgs :
       GT_Account(status, since_date, account)
  \/ \E status \in HStatuses, category \in CategoryArgs, payee \in OptPayeeArgs,
        limit \in LimitArgs :
       GT_Category(status, category, payee, limit)
  \/ \E status \in HStatuses : GT_Window(status)
  \/ \E status \in HStatuses : GT_Final(status)
  \/ \E status \in HStatuses : GA_List(status)
  \/ \E status \in HStatuses : GC_List(status)

Spec == Init /\ [][Next]_vars

-----------------------------------------------------------------------------
(* Properties of the tool handlers *)

Serving(ts) == phase = "serving" /\ tool \in ts

Posts == SelectSeq(calls, LAMBDA c : c.method = "POST")

Written == \E i \in DOMAIN calls : calls[i].method # "GET"

\* A resolver result of the three kinds the handlers branch on.
NewPayeeCandidate(r) == ~r.isEntity /\ r.matches = <<>> /\ r.isNew /\ ~r.hasError
Disambiguation(r) == ~r.isEntity /\ r.hasError

\* The request asks the remote to create a payee by name.
SendsNewName(c) ==
  IF c.method = "POST"
    THEN \/ Truthy(c.body.payee_name)
         \/ \E s \in DOMAIN c.body.subtransactions :
              Truthy(c.body.subtransactions[s].payee_name)
  ELSE IF c.method = "PUT" THEN Truthy(c.body.updates.payee_name)
  ELSE FALSE

SubsMismatch ==
  arg.subAmounts # <<>> /\ Abs(Sum(arg.subAmounts) - arg.amount.n) > Tolerance

ParentPayeeIsNew ==
  /\ Serving({"create_transaction", "create_scheduled_transaction"})
  /\ \E i \in DOMAIN loc.res :
       loc.res[i].kind = "payee" /\ NewPayeeCandidate(loc.res[i].r)

\* C1: in create_transaction and create_scheduled_transaction, when the payee
\* resolves to a NewPayeeCandidate and confirm_new_payee is absent or false the
\* handler returns an error and makes no create call; when it is true the handler
\* goes on, and the one create call it makes carries the payee as a name and no
\* payee id.
C1_NewPayeeGate ==
  ParentPayeeIsNew =>
    IF arg.confirm_new_payee # "true"
      THEN pc = "done" /\ result = "error" /\ Posts = <<>>
      ELSE /\ loc.payeeName = arg.payee /\ loc.payeeId = 0
           /\ Len(Posts) <= 1
           /\ \A i \in DOMAIN Posts :
                Posts[i].body.payee_name = arg.payee /\ Posts[i].body.payee_id = 0
           /\ (result = "ok" => Len(Posts) = 1)
           /\ (result = "error" =>
                 \/ \E i \in DOMAIN loc.res : Disambiguation(loc.res[i].r)
                 \/ SubsMismatch)

C1_Witness ==
  /\ ParentPayeeIsNew /\ tool = "create_scheduled_transaction"
  /\ arg.confirm_new_payee = "true" /\ result = "ok" /\ Len(Posts) = 1
  /\ Posts[1].body.payee_name = Some(<<"x">>)

\* C2: no handler that can send a payee (create_transaction for the parent and
\* for each sub-transaction, create_scheduled_transaction, update_transaction)
\* sends a NewPayeeCandidate to the remote as a new payee name unless
\* confirm_new_payee is true.
C2_NeverUnconfirmed ==
  Serving({"create_transaction", "create_scheduled_transaction", "update_transaction"}) =>
    \A i \in DOMAIN calls :
      SendsNewName(calls[i]) => arg.confirm_new_payee = "true"

\* C3: in every write handler a Disambiguation (several candidates, or an
\* account or category that was not found) ends the call with an error result:
\* no candidate is selected and no write reaches the remote.
C3_DisambiguationStops ==
  Serving(Tools) =>
    \A i \in DOMAIN loc.res :
      Disambiguation(loc.res[i].r) =>
        /\ pc = "done" /\ result = "error"
        /\ i = Len(loc.res)
        /\ ~Written
        /\ loc.res[i].kind = "account" => loc.accountId = 0
        /\ loc.res[i].kind = "payee" =>
             /\ loc.payeeId = 0 /\ loc.payeeName = Absent
             /\ loc.updates.payee_id = 0 /\ loc.updates.payee_name = Absent
        /\ loc.res[i].kind = "category" =>
             loc.categoryId = 0 /\ loc.updates.category_id = 0
        /\ loc.res[i].kind \in {"subcategory", "subpayee"} =>
             Len(loc.resolved) < Len(arg.subs)

C3_Witness ==
  /\ Serving({"update_payee"}) /\ pc = "done" /\ result = "error"
  /\ loc.res # <<>> /\ Len(loc.res[1].r.matches) > 1

\* C7: after any successful operation that may have created or renamed a payee
\* (create_transaction with a new parent or sub-transaction payee name,
\* create_scheduled_transaction or update_transaction with a new payee name,
\* update_payee) the payee cache has been fetched again before the return.
C7_RefetchedBeforeReturn ==
  /\ Serving({"create_transaction", "create_scheduled_transaction",
              "update_transaction", "update_payee"})
  /\ pc = "done" /\ result = "ok"
  /\ \E i \in DOMAIN calls :
       /\ ok(calls[i].status)
       /\ SendsNewName(calls[i]) \/ (calls[i].method = "PATCH" /\ calls[i].res = "payees")
  => /\ calls[Len(calls)] = Call("GET", "payees", 200, NoBody, Absent)
     /\ payees = remotePayees

\* C8: the payee cache changes only in refreshCache; a successful fetch replaces
\* it as a whole with exactly the list the remote returned, a failed one leaves
\* it as it was, so a reader finds the whole old list or the whole new one.
C8_OnlyRefreshCache ==
  [][LET fetched == /\ Len(calls') = Len(calls) + 1
                    /\ calls'[Len(calls')].method = "GET"
                    /\ calls'[Len(calls')].res = "payees"
         status == calls'[Len(calls')].status
     IN  /\ payees' # payees => fetched /\ ok(status)
         /\ fetched /\ ok(status) => payees' = remotePayees
         /\ fetched /\ ~ok(status) => payees' = payees]_vars

C8_Witness ==
  /\ phase = "serving" /\ pc = "done" /\ result = "ok"
  /\ payees # InitialPayees /\ payees = remotePayees
  /\ calls[Len(calls)] = Call("GET", "payees", 200, NoBody, Absent)

\* C9: create_transaction rejects sub-transactions whose amounts differ from the
\* parent amount by more than 0.005 before any remote call at all, not even a
\* read of the accounts or categories.
C9_ValidatedBeforeAnyCall ==
  Serving({"create_transaction"}) /\ SubsMismatch => calls = <<>>

\* C10: create_transaction with a sub-transaction sum mismatch, and
\* update_transaction with none of cleared, amount, payee, category, date and
\* memo, both end in an error and no write reaches the remote; only an unparseable
\* date makes the first throw instead of returning.
C10_RejectedWithoutMutation ==
  /\ Serving({"create_transaction"}) /\ pc = "done" /\ SubsMismatch =>
       /\ result \in {"error", "thrown"}
       /\ result = "thrown" <=> arg.date = "bad"
       /\ ~Written
  /\ /\ Serving({"update_transaction"}) /\ pc = "done"
     /\ arg.cleared = "undefined" /\ ~arg.amount.has /\ arg.date = "undefined"
     /\ ~arg.memo /\ ~arg.payee.has /\ ~arg.category.has
     => result = "error" /\ calls = <<>>

C10_Witness ==
  /\ Serving({"create_transaction"}) /\ pc = "done" /\ result = "error"
  /\ arg.amount = Num(-600) /\ arg.subAmounts = <<-600, -400>>
  /\ calls # <<>> /\ ~Written

SubResolutionFailed ==
  \/ \E i \in DOMAIN loc.res :
       loc.res[i].kind \in {"subcategory", "subpayee"} /\ Disambiguation(loc.res[i].r)
  \/ arg.subs # <<>> /\ \E i \in DOMAIN calls :
       calls[i].res = "categories" /\ ~ok(calls[i].status)

\* C11: in create_transaction with sub-transactions, when the category or payee
\* of a sub-transaction at any position is not resolved, no create call is
\* issued; an invocation issues at most one create call, and only after every
\* sub-transaction has been resolved.
C11_SubFailureAborts ==
  Serving({"create_transaction"}) =>
    /\ Len(Posts) <= 1
    /\ SubResolutionFailed => Posts = <<>>
    /\ Posts # <<>> =>
         /\ Len(arg.subs) = Len(arg.subAmounts)
         /\ Len(Posts[1].body.subtransactions) = Len(arg.subAmounts)
         /\ \A i \in DOMAIN loc.res : ~Disambiguation(loc.res[i].r)
         /\ \A i \in DOMAIN calls : calls[i].method = "POST" =>
              \A j \in 1..(i - 1) : ok(calls[j].status)

C11_Witness ==
  /\ Serving({"create_transaction"}) /\ pc = "done" /\ result = "error"
  /\ Len(arg.subs) = 2 /\ Len(loc.resolved) = 1
  /\ loc.res[Len(loc.res)].kind = "subcategory"
  /\ Disambiguation(loc.res[Len(loc.res)].r)
  /\ Posts = <<>>

Created == Len(SelectSeq(Posts, LAMBDA c : ok(c.status)))

\* C12: create_transaction is atomic with respect to the remote: an invocation
\* either reports success and exactly one transaction was created, or reports a
\* failure and none was created, also when a request of the handler fails.
C12_Atomic ==
  Serving({"create_transaction"}) /\ pc = "done" =>
    \/ result = "ok" /\ Created = 1
    \/ result \in {"error", "thrown"} /\ Created = 0

(* Properties of reconcile_account *)

Puts == SelectSeq(calls, LAMBDA c : c.method = "PUT")

Lists == SelectSeq(calls, LAMBDA c : c.res = "account_transactions")

\* The transactions of the fetched history that were in state cleared.
FetchedCleared ==
  SelectSeq(loc.allTransactions, LAMBDA t : t.cleared = "cleared")

Reconciling == [NoUpdates EXCEPT !.cleared = "reconciled"]

\* C13: a reconcile_account that runs to completion issues exactly one update
\* for each transaction of the resolved account that was cleared in the fetched
\* history, each setting the state to reconciled, and none for an uncleared or
\* reconciled one; the history comes from one list call reaching back without
\* bound, not from the expanding window.
C13_OneUpdatePerCleared ==
  Serving({"reconcile_account"}) /\ pc = "done" /\ result = "ok" =>
    /\ Len(Lists) = 1
    /\ Lists[1].body = [id |-> loc.accountId, since_date |-> Epoch]
    /\ \A i \in DOMAIN loc.allTransactions :
         LET t == loc.allTransactions[i]
             n == Cardinality({k \in DOMAIN Puts : Puts[k].body.id = t.id})
         IN  /\ t.account_id = loc.accountId
             /\ n = (IF t.cleared = "cleared" THEN 1 ELSE 0)
    /\ \A k \in DOMAIN Puts :
         /\ Puts[k].body.updates = Reconciling
         /\ \E i \in DOMAIN loc.allTransactions :
              loc.allTransactions[i].id = Puts[k].body.id
    /\ \A i \in DOMAIN remoteTxns :
         remoteTxns[i].account_id = loc.accountId /\ remoteTxns[i].date < Today =>
           /\ remoteTxns[i].cleared # "cleared"
           /\ \E j \in DOMAIN loc.allTransactions :
                loc.allTransactions[j].id = remoteTxns[i].id

C13_Witness ==
  /\ Serving({"reconcile_account"}) /\ pc = "done" /\ result = "ok"
  /\ Len(Puts) = 2
  /\ \E i, j \in DOMAIN loc.allTransactions :
       /\ loc.allTransactions[i].cleared = "uncleared"
       /\ loc.allTransactions[j].cleared = "reconciled"

\* C14: reconcile_account creates an adjustment transaction exactly when a
\* target balance is supplied and its minor units differ from the account's
\* cleared balance: then one, of the difference, with the payee name
\* "Reconciliation Balance Adjustment", reconciled and dated today; none when
\* the two are equal or no target is given.
C14_AdjustmentIffDiffers ==
  Serving({"reconcile_account"}) =>
    LET differs == /\ arg.balance.has
                   /\ (arg.balance.n + 5) \div 10 # loc.account.cleared_balance
    IN  /\ Len(Posts) <= 1
        /\ Posts # <<>> => differs
        /\ pc = "done" /\ result = "ok" => (differs <=> Len(Posts) = 1)
        /\ \A i \in DOMAIN Posts :
             Posts[i].body =
               [account_id |-> loc.accountId, date |-> Today,
                amount |-> (arg.balance.n + 5) \div 10 - loc.account.cleared_balance,
                payee_id |-> 0, payee_name |-> Some(ReconciliationPayee),
                category_id |-> 0, cleared |-> "reconciled",
                subtransactions |-> <<>>]

C14_Witness ==
  /\ Serving({"reconcile_account"}) /\ pc = "done" /\ result = "ok"
  /\ arg.balance = Num(1600) /\ loc.account.cleared_balance = 150
  /\ Len(Posts) = 1 /\ Posts[1].body.amount = 10

\* C15: when an update fails partway through reconcile_account, the result
\* returned to the caller says how many of the cleared transactions were
\* reconciled before the failure.
C15_FailureReportsCount ==
  /\ Serving({"reconcile_account"}) /\ pc = "done"
  /\ \E k \in DOMAIN Puts : ~ok(Puts[k].status)
  => ReportedCount = Num(Len(SelectSeq(Puts, LAMBDA c : ok(c.status))))

\* C16: within reconcile_account the updates are issued strictly one after
\* another, the next only after the one before has completed, and in the order
\* in which the list call returned the transactions.
C16_UpdatesInListOrder ==
  Serving({"reconcile_account"}) =>
    /\ Len(Puts) <= Len(FetchedCleared)
    /\ \A k \in DOMAIN Puts :
         /\ Puts[k].body.id = FetchedCleared[k].id
         /\ k < Len(Puts) => ok(Puts[k].status)
         /\ k < Len(Puts) => FetchedCleared[k].date >= FetchedCleared[k + 1].date
    /\ \A i, j \in DOMAIN calls :
         i < j /\ calls[i].method = "PUT" /\ calls[j].method = "PUT" =>
           \A m \in i..j : calls[m].method = "PUT"

C16_Witness ==
  /\ Serving({"reconcile_account"})
  /\ Len(Puts) = 2 /\ Puts[1].body.id = 4 /\ Puts[2].body.id = 1
  /\ ok(Puts[2].status)

(* Properties of get_transactions *)

ListCalls == SelectSeq(calls, LAMBDA c : c.res = "transactions")

\* The limit in force: the argument, or 20.
LimitInForce == IF arg.limit.has THEN arg.limit.n ELSE 20

\* How many transactions the remote returns for a list call.
Returned(c) == Len(Listing(c.body.endpoint, c.body.since_date))

ExpandingWindows ==
  <<Num(Today - 30), Num(Today - 90), Num(Today - 180), Num(Today - 365), AbsentNum>>

\* C17: with no since-date get_transactions lists with lookback windows of 30,
\* 90, 180 and 365 days in that order, stops at the first window that returns at
\* least limit transactions, and lists without bound only when all four returned
\* fewer; with a since-date it makes exactly one list call, with that date.
C17_ExpandingWindows ==
  Serving({"get_transactions"}) =>
    IF arg.since_date = "undefined"
      THEN /\ Len(ListCalls) <= 5
           /\ \A k \in DOMAIN ListCalls :
                /\ ListCalls[k].body.since_date = ExpandingWindows[k]
                /\ k < Len(ListCalls) =>
                     ok(ListCalls[k].status) /\ Returned(ListCalls[k]) < LimitInForce
           /\ pc = "done" /\ result = "ok" =>
                /\ ListCalls # <<>>
                /\ \/ Len(ListCalls) = 5
                   \/ Returned(ListCalls[Len(ListCalls)]) >= LimitInForce
      ELSE /\ Len(ListCalls) <= 1
           /\ \A k \in DOMAIN ListCalls :
                ListCalls[k].body.since_date = Num(Today - 100)
           /\ pc = "done" /\ result = "ok" => Len(ListCalls) = 1

C17_Witness ==
  /\ Serving({"get_transactions"}) /\ pc = "done" /\ result = "ok"
  /\ arg.since_date = "undefined" /\ arg.limit = Num(4)
  /\ Len(ListCalls) = 3

\* C18: the transactions get_transactions shows are in non-increasing date
\* order and number at most limit; they are the first limit items of the
\* descending-sorted result of the window that was used.
C18_MostRecentFirst ==
  Serving({"get_transactions"}) /\ pc = "done" /\ result = "ok" =>
    LET used == ListCalls[Len(ListCalls)]
        data == Listing(used.body.endpoint, used.body.since_date)
        shown == loc.limited
        ids == {shown[i].id : i \in DOMAIN shown}
    IN  /\ Len(shown) = (IF Len(data) < LimitInForce THEN Len(data) ELSE LimitInForce)
        /\ \A i \in DOMAIN shown : \E j \in DOMAIN data : data[j] = shown[i]
        /\ Cardinality(ids) = Len(shown)
        /\ \A i, j \in DOMAIN shown : i < j => shown[i].date >= shown[j].date
        /\ \A j \in DOMAIN data :
             data[j].id \notin ids => \A i \in DOMAIN shown : shown[i].date >= data[j].date

C18_Witness ==
  /\ Serving({"get_transactions"}) /\ pc = "done" /\ result = "ok"
  /\ arg.since_date = "undefined" /\ arg.limit = Num(2)
  /\ Len(ListCalls) = 2 /\ Len(loc.transactions) = 3
  /\ Len(loc.limited) = 2 /\ loc.limited[1].id = 5 /\ loc.limited[2].id = 4

\* The place of a clearing state in uncleared -> cleared -> reconciled.
Rank(c) == IF c = "uncleared" THEN 0 ELSE IF c = "cleared" THEN 1 ELSE 2

\* C19: over every sequence of tool operations the clearing state of a
\* transaction only moves forward along uncleared -> cleared -> reconciled: no
\* operation, update_transaction with a cleared argument included, moves a
\* transaction from reconciled to cleared or uncleared, or from cleared to
\* uncleared.
C19_ClearingMonotonic ==
  [][\A i \in DOMAIN remoteTxns :
       i \in DOMAIN remoteTxns' =>
         Rank(remoteTxns'[i].cleared) >= Rank(remoteTxns[i].cleared)]_vars

-----------------------------------------------------------------------------
(* Runs of usdToMilliunits on its own *)

MaxUsd == 60   \* the amounts tried, in 1/10000 of a unit, lie in -MaxUsd..MaxUsd

UsdInputs == (-MaxUsd..MaxUsd) \cup {450000, -500000}

InitUnits ==
  /\ phase = "units"
  /\ tool = "usdToMilliunits"
  /\ pc = "call"
  /\ arg \in {[usd |-> n] : n \in UsdInputs}
  /\ loc = NoLoc
  /\ result = "none"
  /\ remoteAccounts = <<>>
  /\ remoteGroups = <<>>
  /\ remotePayees = <<>>
  /\ remoteTxns = <<>>
  /\ remoteSched = <<>>
  /\ remoteBudgets = <<>>
  /\ budgetId = 1
  /\ invocations = 0
  /\ payees = <<>>
  /\ lastFetched = <<>>
  /\ calls = <<>>
  /\ rQuery = <<>>
  /\ rResult = NoResult

Convert ==
  /\ phase = "units" /\ pc = "call"
  /\ loc' = [milliunits |-> usdToMilliunits(arg.usd)]
  /\ result' = "ok"
  /\ pc' = "done"
  /\ UNCHANGED <<remoteVars, budgetId, invocations, payees, lastFetched, phase,
                 tool, arg, calls, rQuery, rResult>>

NextUnits == Convert

SpecUnits == InitUnits /\ [][NextUnits]_vars

\* Rounding to the nearest integer, halves away from zero.
HalfAwayFromZero(usd) ==
  IF usd >= 0 THEN (usd + 5) \div 10 ELSE -((5 - usd) \div 10)

\* C20: toMinorUnits(a) is a times 1000 rounded to the nearest integer, exact
\* halves going away from zero for negative as for positive amounts (-0.0005
\* gives -1 as 0.0005 gives 1); 45.00 gives 45000 and -50.00 gives -50000.
C20_HalfAwayFromZero ==
  phase = "units" /\ pc = "done" =>
    loc.milliunits = HalfAwayFromZero(arg.usd)


-----------------------------------------------------------------------------
(* The Gateway, startup and exclusion *)

\* The run has stopped at its last request: a handler's invocation has ended
\* with the exception, or startup has failed (main().catch exits).
EndedThrown ==
  \/ phase = "serving" /\ pc = "done" /\ result = "thrown"
  \/ phase = "failed" /\ pc = "exit"

\* C21: every Gateway call is one HTTP request and is never retried: a call
\* that got a non-2xx response is the last request of its invocation, and the
\* invocation (or startup) ends with the exception.  A 401 raises the
\* authentication error, a 429 the rate-limit error, any other non-2xx status
\* the generic remote error, whose message is the remote detail when there is
\* one and the status text otherwise.
C21_GatewayErrors ==
  phase \in {"starting", "serving", "failed"} =>
    \A i \in DOMAIN calls :
      LET c == calls[i]
      IN  /\ c.status \in 200..299 => c.raised = NoError
          /\ c.status = 401 => c.raised.kind = "authentication"
          /\ c.status = 429 => c.raised.kind = "rate limit"
          /\ c.status \notin (200..299) \cup {401, 429} =>
                /\ c.raised.kind = "api"
                /\ c.raised.message =
                     (IF c.detail.has /\ c.detail.v # <<>> THEN c.detail.v
                      ELSE statusText(c.status))
          /\ c.status \notin 200..299 => i = Len(calls) /\ EndedThrown

C21_Witness ==
  /\ phase = "serving" /\ tool = "reconcile_account"
  /\ result = "thrown"
  /\ Len(calls) = 3
  /\ calls[3].method = "PUT"
  /\ calls[3].raised = [kind |-> "api", message |-> statusText(500)]


\* C22: the budget identity is set at most once, at startup: a supplied
\* identifier is kept and no budget list is requested; otherwise the first
\* budget of a successful, non-empty listing is taken, and an empty listing
\* fails startup.  The server starts serving only with the identity set and on
\* the step that fetched the payee list into the cache; a tool is dispatched
\* only while serving, and a failed startup stays failed with no tool served.
C22_StartupOnce ==
  [][ /\ (budgetId' # budgetId =>
            /\ phase = "starting" /\ pc = "init_budgets" /\ budgetId = 0
            /\ remoteBudgets # <<>> /\ budgetId' = remoteBudgets[1]
            /\ calls' = Append(calls, Call("GET", "budgets", 200, NoBody, Absent)))
      /\ (phase = "starting" /\ pc = "init_budgets" /\ budgetId # 0 =>
            calls' = calls /\ phase' = "starting")
      /\ (phase = "starting" /\ pc = "init_budgets" /\ budgetId = 0
            /\ remoteBudgets = <<>> => phase' = "failed")
      /\ (phase = "starting" /\ phase' = "serving" =>
            /\ budgetId # 0 /\ budgetId' = budgetId
            /\ calls' = Append(calls, Call("GET", "payees", 200, NoBody, Absent))
            /\ payees' = remotePayees)
      /\ (phase' = "serving" => phase \in {"starting", "serving"})
      /\ (invocations' # invocations \/ tool' \in Tools => phase = "serving")
      /\ (phase = "failed" => phase' = "failed" /\ invocations' = 0)
    ]_vars

C22_Witness ==
  /\ phase = "serving" /\ pc = "idle" /\ invocations = 0
  /\ budgetId = remoteBudgets[1]
  /\ calls = << Call("GET", "budgets", 200, NoBody, Absent),
                Call("GET", "payees", 200, NoBody, Absent) >>
  /\ payees = remotePayees /\ payees # <<>>


ClosedIds == {remoteAccounts[i].id : i \in {j \in DOMAIN remoteAccounts : remoteAccounts[j].closed}}

OpenNames == {remoteAccounts[i].name : i \in {j \in DOMAIN remoteAccounts : ~remoteAccounts[j].closed}}

\* The categories that are hidden or belong to a hidden group.
HiddenCats ==
  UNION {{remoteGroups[g].categories[c] : c \in {d \in DOMAIN remoteGroups[g].categories :
                                                  remoteGroups[g].hidden \/ remoteGroups[g].categories[d].hidden}} :
         g \in DOMAIN remoteGroups}

VisibleCats ==
  UNION {{remoteGroups[g].categories[c] : c \in {d \in DOMAIN remoteGroups[g].categories :
                                                  ~remoteGroups[g].hidden /\ ~remoteGroups[g].categories[d].hidden}} :
         g \in DOMAIN remoteGroups}

HiddenIds == {c.id : c \in HiddenCats}

Ids(es) == {es[i].id : i \in DOMAIN es}

Elems(ns) == {ns[i] : i \in DOMAIN ns}

\* C23: no handler gets a closed account from findAccount, as the entity, among
\* the candidates or in the names of the not-found hint; get_accounts lists no
\* closed account and the default account of create_transaction is not closed.
\* No handler gets a hidden category or a category of a hidden group from
\* findCategory, as the entity, among the candidates or in the hint, and
\* get_categories lists none.
C23_ClosedAndHiddenExcluded ==
  phase = "serving" /\ tool \in Tools =>
    /\ \A i \in DOMAIN loc.res :
         LET r == loc.res[i].r
         IN  /\ loc.res[i].kind = "account" =>
                   /\ r.entity.id \notin ClosedIds
                   /\ Ids(r.matches) \cap ClosedIds = {}
                   /\ Elems(r.listed) \subseteq OpenNames
             /\ loc.res[i].kind = "category" =>
                   /\ r.entity.id \notin HiddenIds
                   /\ Ids(r.matches) \cap HiddenIds = {}
                   /\ Elems(r.listed) \subseteq {c.name : c \in VisibleCats}
    /\ tool = "get_accounts" => Elems(loc.list) \cap ClosedIds = {}
    /\ tool = "get_categories" => Elems(loc.list) \cap HiddenIds = {}
    /\ loc.accountId \notin ClosedIds

\* An account query that only the closed account matches: not found, and the
\* hint names the two open accounts.
C23_Witness ==
  /\ phase = "serving" /\ tool = "reconcile_account" /\ result = "error"
  /\ arg.account = Some(<<"x">>)
  /\ Len(remoteAccounts) = 3
  /\ Len(loc.res) = 1
  /\ loc.res[1].r.matches = <<>>
  /\ loc.res[1].r.listed = << <<"a", "b">>, <<"a", "c">> >>


\* The state the remote now holds for the transaction with this id.
StateOf(id) ==
  LET i == CHOOSE i \in DOMAIN remoteTxns : remoteTxns[i].id = id
  IN  remoteTxns[i].cleared

\* C24: when the k-th update of reconcile_account fails, it is the last request
\* of the invocation (no further update, no adjustment), the invocation ends
\* with the exception, the k - 1 transactions updated before it are reconciled
\* and the k-th and later cleared transactions of the fetched history are still
\* cleared.
C24_PartialReconcile ==
  Serving({"reconcile_account"}) /\ (\E k \in DOMAIN Puts : ~ok(Puts[k].status)) =>
    LET k == CHOOSE j \in DOMAIN Puts : ~ok(Puts[j].status)
    IN  /\ k = Len(Puts)
        /\ calls[Len(calls)] = Puts[k]
        /\ Posts = <<>>
        /\ pc = "done" /\ result = "thrown"
        /\ Len(FetchedCleared) >= k
        /\ \A j \in DOMAIN Puts : Puts[j].body.id = FetchedCleared[j].id
        /\ \A j \in DOMAIN FetchedCleared :
             StateOf(FetchedCleared[j].id) =
               (IF j < k THEN "reconciled" ELSE "cleared")

C24_Witness ==
  /\ Serving({"reconcile_account"}) /\ result = "thrown"
  /\ Len(Puts) = 2
  /\ ok(Puts[1].status) /\ ~ok(Puts[2].status)
  /\ StateOf(Puts[1].body.id) = "reconciled"
  /\ StateOf(Puts[2].body.id) = "cleared"


-----------------------------------------------------------------------------
(* Properties of get_transactions: equivalence and filters *)

\* The whole history behind the endpoint of this call, latest first.
FullHistory == sortDesc(Listing(Endpoint(loc), AbsentNum))

\* C26: for a limit of at least 1 and no since_date, the transactions
\* get_transactions shows are the first limit items of the whole history
\* sorted by date descending, up to the order of equal dates: as many, with
\* the same dates in the same places, each a different transaction of the
\* history.
C26_WindowsShowTheMostRecent ==
  (Serving({"get_transactions"}) /\ pc = "done" /\ result = "ok"
     /\ ~loc.sinceDate.has /\ loc.limit >= 1) =>
    LET first == slice(FullHistory, loc.limit)
    IN  /\ Len(loc.limited) = Len(first)
        /\ \A i \in DOMAIN loc.limited : loc.limited[i].date = first[i].date
        /\ \A i \in DOMAIN loc.limited :
             \E j \in DOMAIN FullHistory : FullHistory[j] = loc.limited[i]
        /\ \A i, j \in DOMAIN loc.limited :
             i # j => loc.limited[i].id # loc.limited[j].id

\* The third window held four of the six transactions, which were enough.
C26_Witness ==
  /\ Serving({"get_transactions"}) /\ pc = "done" /\ result = "ok"
  /\ ~loc.sinceDate.has /\ loc.limit = 4
  /\ Len(calls) = 3
  /\ Len(loc.transactions) = 4
  /\ Len(FullHistory) = 6
  /\ Len(loc.limited) = 4


-----------------------------------------------------------------------------
(* Amounts sent by create_transaction *)

RECURSIVE SumOfAmounts(_)
SumOfAmounts(subs) ==
  IF subs = <<>> THEN 0 ELSE Head(subs).amount + SumOfAmounts(Tail(subs))

\* C27: in every create call of create_transaction that carries
\* sub-transactions, the sub-transaction amounts sent sum to the parent amount
\* sent, both in minor units.
C27_SentSubsSumToParent ==
  Serving({"create_transaction"}) =>
    \A i \in DOMAIN Posts :
      Posts[i].body.subtransactions # <<>> =>
        SumOfAmounts(Posts[i].body.subtransactions) = Posts[i].body.amount


\* The payee argument of this get_transactions call matched no cached payee.
PayeeFilterIsNew ==
  /\ Serving({"get_transactions"})
  /\ \E i \in DOMAIN loc.res :
       loc.res[i].kind = "payee" /\ NewPayeeCandidate(loc.res[i].r)

\* C29: a get_transactions whose payee filter matches no cached payee does not
\* return an error: it goes on without a payee filter, no list call goes to the
\* payee's transactions, it fails only when a request fails, and it shows what
\* the call with the same account, category, since_date and limit and no payee
\* shows.
C29_UnknownPayeeDropped ==
  PayeeFilterIsNew =>
    /\ result # "error"
    /\ loc.payeeId = 0
    /\ \A i \in DOMAIN ListCalls : ListCalls[i].body.endpoint.kind # "payees"
    /\ result = "thrown" => ~ok(calls[Len(calls)].status)
    /\ pc = "done" /\ result = "ok" =>
         loc.limited =
           slice(getTransactions(Endpoint([loc EXCEPT !.payeeId = 0]),
                                 loc.sinceDate, loc.limit),
                 loc.limit)

C29_Witness ==
  /\ PayeeFilterIsNew /\ pc = "done" /\ result = "ok"
  /\ arg.payee = Some(<<"x">>)
  /\ ~Truthy(arg.account) /\ ~Truthy(arg.category)
  /\ Len(loc.limited) = 3
  /\ \E i, j \in DOMAIN loc.limited : loc.limited[i].payee_id # loc.limited[j].payee_id


\* The resolutions of one kind this invocation has made.
ResOf(kind) == SelectSeq(loc.res, LAMBDA x : x.kind = kind)

\* The id a filter resolved to, or 0.
ResolvedId(kind) ==
  IF ResOf(kind) # <<>> /\ ResOf(kind)[1].r.isEntity
    THEN ResOf(kind)[1].r.entity.id ELSE 0

\* The one filter that restricts the listing, by precedence.
FilterInForce ==
  IF Truthy(arg.account) THEN [kind |-> "accounts", id |-> ResolvedId("account")]
  ELSE IF Truthy(arg.category) THEN [kind |-> "categories", id |-> ResolvedId("category")]
  ELSE IF Truthy(arg.payee) /\ ResolvedId("payee") # 0
    THEN [kind |-> "payees", id |-> ResolvedId("payee")]
  ELSE [kind |-> "all", id |-> 0]

Passes(t, f) ==
  \/ f.kind = "all"
  \/ f.kind = "accounts" /\ t.account_id = f.id
  \/ f.kind = "categories" /\ t.category_id = f.id
  \/ f.kind = "payees" /\ t.payee_id = f.id

\* Every list call goes to the endpoint of the filter in force, and what is
\* returned and shown passes that filter.
OneFilterByPrecedence ==
  /\ \A i \in DOMAIN ListCalls : ListCalls[i].body.endpoint = FilterInForce
  /\ pc = "done" /\ result = "ok" =>
       /\ \A i \in DOMAIN loc.transactions : Passes(loc.transactions[i], FilterInForce)
       /\ loc.limited = slice(getTransactions(FilterInForce, loc.sinceDate, loc.limit),
                              loc.limit)

\* C30 as stated: one filter restricts the listing, by precedence account over
\* category over payee; every filter supplied is resolved, and one that is
\* ambiguous or unknown aborts the call, so that a call that lists anything
\* has resolved each of its filters to an entity.
C30_AsStated ==
  Serving({"get_transactions"}) =>
    /\ OneFilterByPrecedence
    /\ (\E i \in DOMAIN loc.res : ~loc.res[i].r.isEntity) =>
         result = "error" /\ ListCalls = <<>>

\* C30, amended: one filter restricts the listing, by precedence account over
\* category over payee.  The filters supplied are resolved in that order; an
\* ambiguous or unknown account or category and an ambiguous payee end the call
\* with an error before anything is listed, while an unknown payee is left out;
\* a call that lists anything has resolved every filter supplied.
C30_FilterPrecedence ==
  Serving({"get_transactions"}) =>
    /\ OneFilterByPrecedence
    /\ (\E i \in DOMAIN loc.res : loc.res[i].r.hasError) =>
         result = "error" /\ ListCalls = <<>>
    /\ ListCalls # <<>> =>
         /\ Truthy(arg.account) => ResolvedId("account") # 0
         /\ Truthy(arg.category) => ResolvedId("category") # 0
         /\ Truthy(arg.payee) =>
              /\ Len(ResOf("payee")) = 1
              /\ \/ ResolvedId("payee") # 0
                 \/ NewPayeeCandidate(ResOf("payee")[1].r)

\* All three filters resolved; the transactions returned are those of the
\* account, whatever their category and payee.
C30_Witness ==
  /\ Serving({"get_transactions"}) /\ pc = "done" /\ result = "ok"
  /\ ResolvedId("account") # 0
  /\ ResolvedId("category") # 0
  /\ ResolvedId("payee") # 0
  /\ \E i \in DOMAIN loc.limited :
       loc.limited[i].category_id # ResolvedId("category")
  /\ \E i \in DOMAIN loc.limited :
       loc.limited[i].payee_id # ResolvedId("payee")

=============================================================================
